---- MODULE Spec2Model ----
(***************************************************************************)
(* Model of the manager framework of esp_boiler_plate_project:             *)
(*   - the NVS (configuration) manager      src/boiler_plate/nvs_manager.c *)
(*   - the Wi-Fi (connectivity) manager     src/boiler_plate/wifi_manager.c*)
(*   - the web page (presentation) manager  src/web_page_manager.c         *)
(*   - the boot sequencers                  src/main.c, boiler_plate_main.c*)
(*   - the binary codec                     (de)serialisation.c            *)
(* FreeRTOS event groups are sets of bit names; each task is a process     *)
(* whose position is a pc variable.  The ESP-IDF Wi-Fi driver and the NVS  *)
(* flash are the environment.                                              *)
(***************************************************************************)
EXTENDS Integers, Sequences, FiniteSets, TLC

\* ------------------------------------------------------------------ bounds
\* Kconfig value (sdkconfig); used at wifi_manager.c:336.
CONFIG_WIFI_RETRIES == 2
\* Number of request_state calls made to each manager by tasks other than the
\* boot task.
MaxNvsRequests == 2
MaxWifiRequests == 1
MaxWebRequests == 2
\* Number of forms posted to the HTTP server.
MaxPosts == 1
\* Capacity of the default event loop queue that the model explores.
MaxEvents == 3

\* Disconnect events explored since the last obtained address.
MaxDisconnects == CONFIG_WIFI_RETRIES + 2

\* --------------------------------------------------------------- constants
CONFIGURATION_VERSION == 0
MAX_URL_LENGTH == 256

\* Compiled-in defaults (Kconfig strings), as byte sequences.
CONFIG_SSID == <<1>>
CONFIG_PASSWORD == <<2>>
CONFIG_OTA_URL == <<1, 2>>
CONFIG_FIRMWARE_VERSION_ENDPOINT == <<2>>
CONFIG_ESP_NAME == <<1>>
CONFIG_LOG_DEFAULT_LEVEL == 3

\* ------------------------------------------------------------ config model
\* A C pointer: "null", "ok" (points to data) or "freed" (dangling).
NullPtr == [st |-> "null", data |-> <<>>]
Ptr(d) == [st |-> "ok", data |-> d]
FreePtr(p) == IF p.st = "null" THEN p ELSE [st |-> "freed", data |-> <<>>]

\* unit_configuration_t after calloc (unit_config_init).  wifi_connected is the
\* flag the boiler_plate/configuration.h layout of the structure carries; the
\* codec does not know it.
ZeroConfig ==
  [configuration_version |-> 0, wifi_connected |-> FALSE,
   wifi_settings_count |-> 0, ota_url_len |-> 0, version_url_len |-> 0,
   ota_url |-> NullPtr, version_url |-> NullPtr, wifi_settings |-> NullPtr,
   log_level |-> 0,
   unit_name |-> NullPtr, unit_name_len |-> 0]

WifiSetting(ssid, password) ==
  [ssid_len |-> Len(ssid), password_len |-> Len(password),
   ssid |-> IF ssid = <<>> THEN NullPtr ELSE Ptr(ssid),
   password |-> IF password = <<>> THEN NullPtr ELSE Ptr(password)]

\* The bytes memcpy reads through pointer p for length n.  Reading past the
\* pointed-to data (or through a null/freed pointer) yields zero bytes here.
MemRead(p, n) == [i \in 1..n |-> IF i <= Len(p.data) THEN p.data[i] ELSE 0]

\* strlcpy(dst, src, size) into a buffer holding `old`: at most size - 1 bytes
\* and a terminating zero are written, what lies behind them stays.
strlcpy(old, src, size) ==
  LET n == IF Len(src) < size - 1 THEN Len(src) ELSE size - 1
      written == SubSeq(src, 1, n) \o <<0>>
  IN [i \in 1..(IF Len(old) > n + 1 THEN Len(old) ELSE n + 1) |->
        IF i <= n + 1 THEN written[i] ELSE old[i]]

\* The C string held in a buffer: the bytes before the first zero.
RECURSIVE CStr(_)
CStr(buf) == IF buf = <<>> \/ Head(buf) = 0 THEN <<>> ELSE <<Head(buf)>> \o CStr(Tail(buf))

\* Variant: the four bytes written most significant first.
BE32(v) == <<(v \div 16777216) % 256, (v \div 65536) % 256, (v \div 256) % 256, v % 256>>
\* A 4-byte little-endian integer (esp_log_level_t is an int-sized enum).
LE32(v) == <<v % 256, (v \div 256) % 256, (v \div 65536) % 256, (v \div 16777216) % 256>>

\* Variant: the four bytes read most significant first.
UnBE32(b) == b[4] + 256 * b[3] + 65536 * b[2] + 16777216 * b[1]
UnLE32(b) == b[1] + 256 * b[2] + 65536 * b[3] + 16777216 * b[4]

\* ------------------------------------------------------------ serialisation
serialize_wifi_settings(s) ==
  <<s.ssid_len, s.password_len>>
    \o (IF s.ssid_len > 0 /\ s.ssid.st # "null" THEN MemRead(s.ssid, s.ssid_len) ELSE <<>>)
    \o (IF s.password_len > 0 /\ s.password.st # "null"
          THEN MemRead(s.password, s.password_len) ELSE <<>>)

\* The loop over the array: the bytes of items lo..hi in order (the range is
\* halved so that an array of 255 items is evaluated at a small depth).
RECURSIVE serialize_settings_range(_, _, _)
serialize_settings_range(items, lo, hi) ==
  IF lo > hi THEN <<>>
  ELSE IF lo = hi THEN serialize_wifi_settings(items[lo])
  ELSE LET mid == (lo + hi) \div 2
       IN serialize_settings_range(items, lo, mid) \o serialize_settings_range(items, mid + 1, hi)

\* Variant: an array of no items serialised as one record of two zero lengths.
SettingsArrayWithEmptyRecord(items, n) ==
  IF n = 0 THEN <<0, 0>> ELSE serialize_settings_range(items, 1, n)
serialize_settings_array(items, n) == serialize_settings_range(items, 1, n)

serialize_connectivity_configuration(c) ==
  <<c.wifi_settings_count, c.ota_url_len, c.version_url_len>>
    \o (IF c.ota_url_len > 0 /\ c.ota_url.st # "null" THEN MemRead(c.ota_url, c.ota_url_len) ELSE <<>>)
    \o (IF c.version_url_len > 0 /\ c.version_url.st # "null"
          THEN MemRead(c.version_url, c.version_url_len) ELSE <<>>)
    \o serialize_settings_array(c.wifi_settings.data, c.wifi_settings_count)

serialize_system_settings_configuration(c) == LE32(c.log_level)

serialize_user_configuration(c) ==
  <<c.unit_name_len>>
    \o (IF c.unit_name_len > 0 /\ c.unit_name.st # "null"
          THEN MemRead(c.unit_name, c.unit_name_len) ELSE <<>>)

serialize_unit_configuration(c) ==
  <<c.configuration_version>>
    \o serialize_connectivity_configuration(c)
    \o serialize_system_settings_configuration(c)
    \o serialize_user_configuration(c)

RECURSIVE settings_range_size(_, _, _)
settings_range_size(items, lo, hi) ==
  IF lo > hi THEN 0
  ELSE IF lo = hi THEN 1 + items[lo].ssid_len + 1 + items[lo].password_len
  ELSE LET mid == (lo + hi) \div 2
       IN settings_range_size(items, lo, mid) + settings_range_size(items, mid + 1, hi)

settings_size(items, n) == settings_range_size(items, 1, n)

\* Variant: the system settings counted as one byte.
SizeWithOneByteLogLevel(c) ==
  1 + 1 + 1 + c.ota_url_len + 1 + c.version_url_len
    + settings_size(c.wifi_settings.data, c.wifi_settings_count)
    + 1 + 1 + c.unit_name_len
calculate_unit_configuration_size(c) ==
  1 + 1 + 1 + c.ota_url_len + 1 + c.version_url_len
    + settings_size(c.wifi_settings.data, c.wifi_settings_count)
    + 4 + 1 + c.unit_name_len

\* ---------------------------------------------------------- deserialisation
\* Every reader takes the buffer and a 1-based position and returns the value
\* read and the next position, as the C code threads its ptr.
deserialize_block(buf, pos, size) == SubSeq(buf, pos, pos + size - 1)

deserialize_wifi_settings(buf, pos) ==
  LET ssid_len == buf[pos]
      password_len == buf[pos + 1]
      p1 == pos + 2
      p2 == p1 + ssid_len
  IN [val |-> [ssid_len |-> ssid_len, password_len |-> password_len,
               ssid |-> IF ssid_len > 0 THEN Ptr(deserialize_block(buf, p1, ssid_len)) ELSE NullPtr,
               password |-> IF password_len > 0
                              THEN Ptr(deserialize_block(buf, p2, password_len)) ELSE NullPtr],
      pos |-> p2 + password_len]

RECURSIVE deserialize_settings_array(_, _, _)
deserialize_settings_array(buf, pos, n) ==
  IF n = 0 THEN [val |-> <<>>, pos |-> pos]
  ELSE IF n = 1 THEN LET one == deserialize_wifi_settings(buf, pos)
                     IN [val |-> <<one.val>>, pos |-> one.pos]
  ELSE LET first == deserialize_settings_array(buf, pos, n \div 2)
           rest == deserialize_settings_array(buf, first.pos, n - (n \div 2))
       IN [val |-> first.val \o rest.val, pos |-> rest.pos]

deserialize_connectivity_configuration(c, buf, pos) ==
  LET count == buf[pos]
      ota_len == buf[pos + 1]
      ver_len == buf[pos + 2]
      p1 == pos + 3
      p2 == p1 + ota_len
      p3 == p2 + ver_len
      arr == deserialize_settings_array(buf, p3, count)
  IN [val |-> [c EXCEPT !.wifi_settings_count = count,
                        !.ota_url_len = ota_len,
                        !.version_url_len = ver_len,
                        !.ota_url = IF ota_len > 0 THEN Ptr(deserialize_block(buf, p1, ota_len))
                                    ELSE NullPtr,
                        !.version_url = IF ver_len > 0
                                          THEN Ptr(deserialize_block(buf, p2, ver_len))
                                          ELSE NullPtr,
                        !.wifi_settings = IF count > 0 THEN Ptr(arr.val) ELSE NullPtr],
      pos |-> IF count > 0 THEN arr.pos ELSE p3]

deserialize_system_settings_configuration(c, buf, pos) ==
  [val |-> [c EXCEPT !.log_level = UnLE32(deserialize_block(buf, pos, 4))], pos |-> pos + 4]

deserialize_user_configuration(c, buf, pos) ==
  LET n == buf[pos]
  IN [val |-> [c EXCEPT !.unit_name_len = n,
                        !.unit_name = IF n > 0 THEN Ptr(deserialize_block(buf, pos + 1, n))
                                      ELSE NullPtr],
      pos |-> pos + 1 + n]

\* Returns the configuration left in *config and `ok` = (returned ptr # NULL).
deserialize_unit_configuration(c, buf) ==
  LET v == [c EXCEPT !.configuration_version = buf[1]]
  IN IF buf[1] # CONFIGURATION_VERSION
       THEN [val |-> v, ok |-> FALSE, pos |-> 2]
       ELSE LET con == deserialize_connectivity_configuration(v, buf, 2)
                sys == deserialize_system_settings_configuration(con.val, buf, con.pos)
                usr == deserialize_user_configuration(sys.val, buf, sys.pos)
            IN [val |-> usr.val, ok |-> TRUE, pos |-> usr.pos]

\* Bytes the heap may hold behind a buffer that is read past its end.
JunkBytes == {0, 1}
\* Longest over-read of the decoder on the blobs explored.
PadLen == 24
Pad(junk) == [i \in 1..PadLen |-> junk]

\* The number of bytes the decoder consumes on `blob`.
DecodedLength(blob) == deserialize_unit_configuration(ZeroConfig, blob \o Pad(0)).pos - 1
\* The blob's total length agrees with the length fields decoded from it.
LengthConsistent(blob) == DecodedLength(blob) = Len(blob)

\* ------------------------------------------------------------------- state
VARIABLES
  \* struct nvs_manager
  nvs_current_state,    \* "NONE" | "READY" | "BUSY"
  nvs_request_bits,     \* request_event_group
  nvs_state_bits,       \* state_event_group
  nvs_flash_inited,
  nvs_pc,               \* position of the NVS fsm_task
  nvs_ret,              \* last value returned by transition_to_state
  \* the flash: blob stored under UNIT_CONFIG_KEY (<<>> = key absent)
  nvs_key,
  \* shared_data of state.c
  unit_config,
  \* set when ESP_ERROR_CHECK aborts the firmware
  aborted,
  \* request_state calls left, per manager, to tasks other than the boot task
  caller_budget,
  \* history: requests that arrived while current_state was BUSY, still pending
  busy_arrivals,
  \* history: what the last READY transition from NONE found and did, the
  \* configuration the last completed WRITE request serialised (<<>> = none
  \* yet), and whether a READ request has been carried out since the later
  \* of the two
  init_hist,
  \* history: a read or write of the flash failed in a READ or WRITE request
  nvs_io_error

nvs_vars == <<nvs_current_state, nvs_request_bits, nvs_state_bits, nvs_flash_inited,
              nvs_pc, nvs_ret, nvs_key, unit_config, busy_arrivals, init_hist, nvs_io_error,
              nvs_io_error>>

VARIABLES
  \* struct wifi_manager
  wifi_current_state,   \* "NONE" | "STA" | "AP" | "AP_STA"
  wifi_request_bits,    \* request_event_group
  wifi_state_bits,      \* state_event_group
  retry_count,
  retry_timer,          \* the one-shot retry timer is armed
  sta_config,           \* sta_config.sta: ssid and password (<<>> = never set)
  wifi_ret,             \* last value returned by transition_to_state
  radio,
  wifi_events,          \* the default event loop's queue
  \* history: disconnect events handled since retry_count was last zeroed,
  \* and the ordinal of the first of them that requested AP (0 = none yet)
  disconnects,
  first_ap_disconnect,
  \* history: a pending STA or AP_STA request was made by a caller of the public API
  station_req_external,
  \* history: the scan whose result matched no configured name, if any
  no_match_seen

wifi_vars == <<wifi_current_state, wifi_request_bits, wifi_state_bits, retry_count,
               retry_timer, sta_config, wifi_ret, radio, wifi_events, disconnects,
               first_ap_disconnect, station_req_external, no_match_seen>>

VARIABLES
  \* struct web_page_manager
  web_request_bits,     \* request_event_group
  web_state_bits,       \* state_event_group
  web_pc,               \* position of the web page fsm_task: "start" | "loop" | "dns"
  web_bits,             \* fsm_task's local `bits`: the requests taken by the last wait
  web_ret,              \* last value returned by transition_to_state
  http_server,          \* httpd is running
  dns_server            \* the captive-portal DNS server is running

web_vars == <<web_request_bits, web_state_bits, web_pc, web_bits, web_ret, http_server,
              dns_server>>

VARIABLES
  boot_variant,         \* which entry point is built: "app_main" | "init_boiler_plate"
  boot_pc,              \* position of the boot task
  observer_pc,          \* a second task waiting for the AP state: "idle" | "waiting" | "returned"
  \* history: that task began to wait after the manager had left AP again
  observer_late

boot_vars == <<boot_variant, boot_pc, observer_pc, observer_late>>

VARIABLES
  \* state.c
  mutex_holder,         \* state_mutex and managers_mutex: "free" or the task holding it
  thread_pc             \* per task: the function it runs that takes a mutex, and its position

lock_vars == <<mutex_holder, thread_pc>>

VARIABLES
  nvs_bits,             \* the NVS fsm_task's local `bits`: the requests taken by the last wait
  wifi_bits             \* the Wi-Fi fsm_task's local `bits`

wake_vars == <<nvs_bits, wifi_bits>>

VARIABLES
  heap_free             \* malloc and calloc still find memory for the NVS manager

vars == <<nvs_vars, wifi_vars, web_vars, boot_vars, aborted, caller_budget, lock_vars, wake_vars,
          heap_free>>

NvsRequests == {"NONE_REQUEST", "READY_REQUEST", "READ_REQUEST", "WRITE_REQUEST"}

\* A configuration an earlier run of this firmware may have persisted.
StoredConfigA ==
  [ZeroConfig EXCEPT !.wifi_settings_count = 1,
                     !.wifi_settings = Ptr(<<WifiSetting(<<2>>, <<1>>)>>),
                     !.ota_url_len = 1, !.ota_url = Ptr(<<2>>),
                     !.log_level = 2,
                     !.unit_name_len = 1, !.unit_name = Ptr(<<2>>)]
BlobA == serialize_unit_configuration(StoredConfigA)
\* What the flash may hold at power-up: nothing, a blob of this format, a blob
\* of another format version, a blob shorter than its length fields say (the
\* repository's earlier firmwares store other layouts under the same key).
InitialBlobs ==
  { <<>>, BlobA, <<1>> \o Tail(BlobA), SubSeq(BlobA, 1, Len(BlobA) - 1) }

NvsInit ==
  /\ nvs_current_state = "NONE"
  /\ nvs_request_bits = {}
  /\ nvs_state_bits = {}
  /\ nvs_flash_inited = FALSE
  /\ nvs_pc = "wait"
  /\ nvs_ret = "ESP_OK"
  /\ nvs_key \in InitialBlobs
  /\ unit_config = ZeroConfig
  /\ busy_arrivals = {}
  /\ init_hist = [done |-> FALSE, absent |-> FALSE, mismatch |-> FALSE, wrote_default |-> FALSE,
                  read_done |-> FALSE, written |-> <<>>]
  /\ nvs_io_error = FALSE

\* ------------------------------------------------------------- NVS manager
\* nvs_manager_request_state: only sets the request bit.
nvs_manager_request_state(new_state) ==
  /\ nvs_request_bits' = nvs_request_bits \cup {new_state}
  /\ busy_arrivals' = IF nvs_current_state = "BUSY"
                        THEN busy_arrivals \cup {new_state}
                        ELSE busy_arrivals \ {new_state}

\* The bits left in an event group when xEventGroupWaitBits returns for `mask`.
BitsAfterWait(bits, mask, xClearOnExit) == IF xClearOnExit THEN bits \ mask ELSE bits

\* Variant: the chain tests the bits in the opposite order.
NvsPickRequestReversed(bits) ==
  IF "WRITE_REQUEST" \in bits THEN "WRITE_REQUEST"
  ELSE IF "READ_REQUEST" \in bits THEN "READ_REQUEST"
  ELSE IF "READY_REQUEST" \in bits THEN "READY_REQUEST"
  ELSE "NONE_REQUEST"

\* fsm_task: the if/else-if chain choosing one request among the set bits.
NvsPickRequest(bits) ==
  IF "NONE_REQUEST" \in bits THEN "NONE_REQUEST"
  ELSE IF "READY_REQUEST" \in bits THEN "READY_REQUEST"
  ELSE IF "READ_REQUEST" \in bits THEN "READ_REQUEST"
  ELSE "WRITE_REQUEST"

\* Variant: the key is taken to be there whatever the flash holds.
KeyAlwaysFound == TRUE
is_config_stored_in_nvs == nvs_key # <<>>

\* The configuration store_unit_default_config_to_nvs builds in shared_data.
DefaultConfig(c) ==
  [c EXCEPT !.wifi_settings_count = 1,
            !.wifi_settings = Ptr(<<WifiSetting(CONFIG_SSID, CONFIG_PASSWORD)>>),
            !.ota_url_len = Len(CONFIG_OTA_URL), !.ota_url = Ptr(CONFIG_OTA_URL),
            !.version_url_len = Len(CONFIG_FIRMWARE_VERSION_ENDPOINT),
            !.version_url = Ptr(CONFIG_FIRMWARE_VERSION_ENDPOINT),
            !.log_level = CONFIG_LOG_DEFAULT_LEVEL,
            !.unit_name_len = Len(CONFIG_ESP_NAME), !.unit_name = Ptr(CONFIG_ESP_NAME)]

\* The cleanup: label of store_unit_default_config_to_nvs frees every buffer
\* and leaves the pointers in shared_data as they are (dangling).
FreedConfig(c) ==
  [c EXCEPT !.wifi_settings = FreePtr(@), !.ota_url = FreePtr(@),
            !.version_url = FreePtr(@), !.unit_name = FreePtr(@)]

\* store_unit_default_config_to_nvs when its first malloc returns NULL: the
\* count is set, the old list is freed, and cleanup: frees the old strings.
DefaultNotAllocated(c) ==
  [c EXCEPT !.wifi_settings_count = 1, !.wifi_settings = NullPtr,
            !.ota_url = FreePtr(@), !.version_url = FreePtr(@), !.unit_name = FreePtr(@)]

\* The blob written by update_nvs_from_config / store_unit_default_config:
\* a zeroed buffer of the computed size, filled by the serialiser.
SerializedBlob(c) ==
  LET size == calculate_unit_configuration_size(c)
      out == serialize_unit_configuration(c)
  IN [i \in 1..size |-> IF i <= Len(out) THEN out[i] ELSE 0]

\* read_nvs_into_config: returns ESP_ERR_NOT_FOUND on an empty key, else
\* deserialises into shared_data and returns ESP_OK whatever the decoder says.
\* `junk` is what lies behind the blob's buffer on the heap.
read_nvs_ret(blob) == IF blob = <<>> THEN "ESP_ERR_NOT_FOUND" ELSE "ESP_OK"
read_nvs_into_config(c, blob, junk) ==
  IF blob = <<>> THEN c
  ELSE deserialize_unit_configuration(c, blob \o Pad(junk)).val

\* transition_to_state, NONE -> READY.
NvsTransitionInit(io) ==
  /\ nvs_current_state = "NONE"
  /\ \/ /\ io = "init_failed"                \* initialise_nvs_flash() # ESP_OK
        /\ nvs_ret' = "ESP_FAIL"
        /\ UNCHANGED <<nvs_current_state, nvs_state_bits, nvs_flash_inited, nvs_key,
                       unit_config, init_hist, aborted>>
     \/ /\ io = "abort"                      \* ESP_ERROR_CHECK(nvs_open / set_blob / commit)
        /\ aborted' = TRUE
        /\ UNCHANGED <<nvs_current_state, nvs_state_bits, nvs_flash_inited, nvs_key,
                       unit_config, init_hist, nvs_ret>>
     \/ /\ io = "no_memory"                  \* a malloc of store_unit_default_config_to_nvs
        /\ ~heap_free                        \* returns NULL: goto cleanup, nothing is written
        /\ ~is_config_stored_in_nvs
        /\ unit_config' = DefaultNotAllocated(unit_config)
        /\ init_hist' = [done |-> TRUE, absent |-> TRUE, mismatch |-> FALSE,
                         wrote_default |-> FALSE, read_done |-> FALSE,
                         written |-> init_hist.written]
        /\ nvs_flash_inited' = TRUE
        /\ nvs_current_state' = "READY"
        /\ nvs_state_bits' = nvs_state_bits \cup {"READY"}
        /\ nvs_ret' = "ESP_OK"
        /\ UNCHANGED <<nvs_key, aborted>>
     \/ /\ io = "ok"
        /\ heap_free
        /\ \E junk \in JunkBytes :
             LET stored == is_config_stored_in_nvs
                 dflt == DefaultConfig(unit_config)
                 blob == IF stored THEN nvs_key ELSE SerializedBlob(dflt)
                 cfg0 == IF stored THEN unit_config ELSE FreedConfig(dflt)
             IN /\ nvs_key' = blob
                /\ unit_config' = read_nvs_into_config(cfg0, blob, junk)
                /\ init_hist' = [done |-> TRUE, absent |-> nvs_key = <<>>,
                                 mismatch |-> nvs_key # <<>> /\ nvs_key[1] # CONFIGURATION_VERSION,
                                 wrote_default |-> ~stored, read_done |-> FALSE,
                                 written |-> init_hist.written]
        /\ nvs_flash_inited' = TRUE
        /\ nvs_current_state' = "READY"
        /\ nvs_state_bits' = nvs_state_bits \cup {"READY"}
        /\ nvs_ret' = "ESP_OK"
        /\ UNCHANGED aborted

\* transition_to_state, READY -> BUSY for a read, write or shutdown request.
NvsEnterBusy(pc) ==
  /\ nvs_current_state' = "BUSY"
  /\ nvs_state_bits' = nvs_state_bits \cup {"BUSY"}
  /\ nvs_pc' = pc
  /\ UNCHANGED <<nvs_flash_inited, nvs_ret, nvs_key, unit_config, init_hist, nvs_io_error, aborted>>

\* A refusal that nevertheless publishes NVS_BUSY.
NvsDeniedPublishingBusy ==
  /\ nvs_ret' = "ESP_FAIL"
  /\ nvs_state_bits' = nvs_state_bits \cup {"BUSY"}
  /\ UNCHANGED <<nvs_current_state, nvs_flash_inited, nvs_key, unit_config,
                 init_hist, aborted, nvs_pc>>

\* transition_to_state refusing the request.
NvsDenied ==
  /\ nvs_ret' = "ESP_FAIL"
  /\ UNCHANGED <<nvs_current_state, nvs_state_bits, nvs_flash_inited, nvs_key, unit_config,
                 init_hist, aborted, nvs_pc>>

\* fsm_task: one wake-up of the worker and the start of transition_to_state.
NvsFsmWake ==
  /\ ~aborted
  /\ UNCHANGED lock_vars
  /\ UNCHANGED heap_free
  /\ nvs_bits' = nvs_request_bits
  /\ UNCHANGED wifi_bits
  /\ UNCHANGED <<wifi_vars, web_vars, boot_vars>>
  /\ nvs_pc = "wait"
  /\ nvs_request_bits # {}
  /\ nvs_request_bits' = BitsAfterWait(nvs_request_bits, NvsRequests, TRUE)
  /\ busy_arrivals' = {}
  /\ UNCHANGED <<caller_budget, nvs_io_error>>
  /\ LET req == NvsPickRequest(nvs_request_bits)
     IN IF nvs_current_state = "BUSY" THEN NvsDenied
        ELSE IF nvs_current_state = "NONE" /\ req \in {"READ_REQUEST", "WRITE_REQUEST"}
          THEN NvsDenied
        ELSE IF nvs_current_state = "NONE" /\ req = "READY_REQUEST"
          THEN /\ \E io \in {"ok", "init_failed", "abort", "no_memory"} : NvsTransitionInit(io)
               /\ UNCHANGED nvs_pc
        ELSE IF nvs_current_state = "READY" /\ req = "READ_REQUEST" THEN NvsEnterBusy("read")
        ELSE IF nvs_current_state = "READY" /\ req = "WRITE_REQUEST" THEN NvsEnterBusy("write")
        ELSE IF nvs_current_state = "READY" /\ req = "NONE_REQUEST" THEN NvsEnterBusy("deinit")
        ELSE NvsDenied

\* transition_to_state, READ_REQUEST: read_nvs_into_config, then back to READY.
NvsFinishRead ==
  /\ ~aborted
  /\ UNCHANGED lock_vars
  /\ UNCHANGED heap_free
  /\ UNCHANGED wake_vars
  /\ UNCHANGED <<wifi_vars, web_vars, boot_vars>>
  /\ nvs_pc = "read"
  /\ \/ /\ aborted' = TRUE                   \* ESP_ERROR_CHECK(nvs_open / nvs_get_blob)
        /\ nvs_io_error' = TRUE
        /\ UNCHANGED <<nvs_current_state, nvs_state_bits, nvs_pc, nvs_ret, unit_config,
                       init_hist>>
     \/ /\ nvs_key # <<>> => heap_free       \* ESP_ERROR_CHECK(allocate_and_clear_buffer)
        /\ \E junk \in JunkBytes : unit_config' = read_nvs_into_config(unit_config, nvs_key, junk)
        /\ nvs_ret' = read_nvs_ret(nvs_key)
        /\ nvs_current_state' = "READY"
        /\ nvs_state_bits' = nvs_state_bits \cup {"READY"}
        /\ nvs_pc' = "wait"
        /\ init_hist' = [init_hist EXCEPT !.read_done = TRUE]
        /\ UNCHANGED <<aborted, nvs_io_error>>
  /\ UNCHANGED <<nvs_request_bits, nvs_flash_inited, nvs_key, busy_arrivals, caller_budget>>

\* transition_to_state, WRITE_REQUEST: update_nvs_from_config, then back to READY.
NvsFinishWrite ==
  /\ ~aborted
  /\ UNCHANGED lock_vars
  /\ UNCHANGED heap_free
  /\ UNCHANGED wake_vars
  /\ UNCHANGED <<wifi_vars, web_vars, boot_vars>>
  /\ nvs_pc = "write"
  /\ \/ /\ aborted' = TRUE                   \* ESP_ERROR_CHECK(nvs_set_blob / nvs_commit)
        /\ nvs_io_error' = TRUE
        /\ UNCHANGED <<nvs_current_state, nvs_state_bits, nvs_pc, nvs_ret, nvs_key, init_hist>>
     \/ /\ heap_free                         \* ESP_ERROR_CHECK(allocate_and_clear_buffer)
        /\ nvs_key' = SerializedBlob(unit_config)
        /\ nvs_ret' = "ESP_OK"
        /\ nvs_current_state' = "READY"
        /\ nvs_state_bits' = nvs_state_bits \cup {"READY"}
        /\ nvs_pc' = "wait"
        /\ init_hist' = [init_hist EXCEPT !.written = <<unit_config>>, !.read_done = FALSE]
        /\ UNCHANGED <<aborted, nvs_io_error>>
  /\ UNCHANGED <<nvs_request_bits, nvs_flash_inited, unit_config, busy_arrivals,
                 caller_budget>>

\* Variant: the manager stays READY whatever nvs_flash_deinit returned.
DeinitStateStaysReady(ret) == "READY"
\* The state transition_to_state ends in for what deinitialise_nvs_flash returned.
DeinitState(ret) == IF ret = "ESP_OK" THEN "NONE" ELSE "READY"

\* transition_to_state, NONE_REQUEST: deinitialise_nvs_flash.
NvsFinishDeinit ==
  /\ ~aborted
  /\ UNCHANGED lock_vars
  /\ UNCHANGED heap_free
  /\ UNCHANGED wake_vars
  /\ UNCHANGED <<wifi_vars, web_vars, boot_vars>>
  /\ nvs_pc = "deinit"
  /\ \E ret \in {"ESP_OK", "ESP_FAIL"} :
       /\ nvs_ret' = ret
       /\ nvs_current_state' = DeinitState(ret)
       /\ nvs_state_bits' = nvs_state_bits \cup {DeinitState(ret)}
       /\ nvs_flash_inited' = IF DeinitState(ret) = "NONE" THEN FALSE ELSE nvs_flash_inited
  /\ nvs_pc' = "wait"
  /\ UNCHANGED <<nvs_request_bits, nvs_key, unit_config, busy_arrivals, init_hist, nvs_io_error,
                 aborted, caller_budget>>

\* The other tasks use up the heap.
HeapExhausted ==
  /\ ~aborted
  /\ heap_free
  /\ heap_free' = FALSE
  /\ UNCHANGED <<nvs_vars, wifi_vars, web_vars, boot_vars, aborted, caller_budget, lock_vars,
                 wake_vars>>

\* Any other task (an HTTP handler, the application) requesting an NVS state.
CallerRequestNvs ==
  /\ ~aborted
  /\ UNCHANGED lock_vars
  /\ UNCHANGED heap_free
  /\ UNCHANGED wake_vars
  /\ UNCHANGED <<wifi_vars, web_vars, boot_vars>>
  /\ caller_budget.nvs > 0
  /\ caller_budget' = [caller_budget EXCEPT !.nvs = @ - 1]
  /\ \E r \in NvsRequests : nvs_manager_request_state(r)
  /\ UNCHANGED <<nvs_current_state, nvs_state_bits, nvs_flash_inited, nvs_pc, nvs_ret,
                 nvs_key, unit_config, init_hist, nvs_io_error, aborted>>

\* ------------------------------------------------------------ Wi-Fi driver
\* The ESP-IDF Wi-Fi driver as the manager sees it.
\*   link: "down" | "scanning" | "connecting" | "up"
\*   scan: the access point records of the last scan, until they are fetched
RadioOff == [inited |-> FALSE, mode |-> "NULL", started |-> FALSE, link |-> "down", scan |-> <<>>]

StaModes == {"STA", "APSTA"}
ApModes == {"AP", "APSTA"}

\* esp_wifi_stop: the events the driver posts and the radio it leaves.
esp_wifi_stop_events(r) ==
  IF ~r.started THEN <<>>
  ELSE (IF r.mode \in StaModes /\ r.link = "up" THEN <<"STA_DISCONNECTED">> ELSE <<>>)
         \o (IF r.mode \in StaModes THEN <<"STA_STOP">> ELSE <<>>)
         \o (IF r.mode \in ApModes THEN <<"AP_STOP">> ELSE <<>>)
esp_wifi_stop(r) == [r EXCEPT !.started = FALSE, !.link = "down"]

\* esp_wifi_start: WIFI_EVENT_STA_START is posted when a station interface starts.
esp_wifi_start_events(r) == IF r.mode \in StaModes THEN <<"STA_START">> ELSE <<>>
esp_wifi_start(r) == [r EXCEPT !.started = TRUE, !.link = "down"]

\* esp_wifi_scan_start / esp_wifi_connect succeed only on a started station.
StationUsable(r) == r.inited /\ r.started /\ r.mode \in StaModes

\* A network name of the greatest length 802.11 allows (32 bytes).
LongSsid == [i \in 1..32 |-> 1 + (i % 2)]

\* The least value of int8_t, the type of wifi_ap_record_t.rssi.
INT8_MIN == -128

\* What a scan may report: records of (ssid, rssi).
ScanLists ==
  { <<>>,
    <<[ssid |-> <<1>>, rssi |-> -60]>>,
    <<[ssid |-> <<2>>, rssi |-> -60], [ssid |-> <<1>>, rssi |-> -40]>>,
    <<[ssid |-> <<3>>, rssi |-> -30]>>,
    <<[ssid |-> <<1>>, rssi |-> -50], [ssid |-> <<2>>, rssi |-> -50]>>,
    <<[ssid |-> LongSsid, rssi |-> -45]>>,
    <<[ssid |-> <<1>>, rssi |-> INT8_MIN + 1]>>,
    <<[ssid |-> <<2>>, rssi |-> INT8_MIN]>> }

\* --------------------------------------------------------- Wi-Fi manager
WifiStates == {"NONE", "STA", "AP", "AP_STA"}
WifiRequests == {"NONE_REQUEST", "STA_REQUEST", "AP_REQUEST", "AP_STA_REQUEST"}

WifiInit ==
  /\ wifi_current_state = "NONE"
  /\ wifi_request_bits = {}
  /\ wifi_state_bits = {}
  /\ retry_count = 0
  /\ retry_timer = FALSE
  /\ sta_config = [ssid |-> <<>>, password |-> <<>>]
  /\ wifi_ret = "ESP_OK"
  /\ radio = RadioOff
  /\ wifi_events = <<>>
  /\ disconnects = 0
  /\ first_ap_disconnect = 0
  /\ station_req_external = FALSE
  /\ no_match_seen = FALSE

\* wifi_manager_request_state: the request bit set for a state.
wifi_manager_request_state(new_state) ==
  CASE new_state = "NONE" -> "NONE_REQUEST"
    [] new_state = "STA" -> "STA_REQUEST"
    [] new_state = "AP" -> "AP_REQUEST"
    [] new_state = "AP_STA" -> "AP_STA_REQUEST"

\* fsm_task: the if/else-if chain choosing one requested state.
WifiPickRequest(bits) ==
  IF "NONE_REQUEST" \in bits THEN "NONE"
  ELSE IF "STA_REQUEST" \in bits THEN "STA"
  ELSE IF "AP_REQUEST" \in bits THEN "AP"
  ELSE "AP_STA"

target_mode(new_state) ==
  CASE new_state = "NONE" -> "NULL"
    [] new_state = "STA" -> "STA"
    [] new_state = "AP" -> "AP"
    [] new_state = "AP_STA" -> "APSTA"

\* The driver call that may fail in one run of transition_to_state.
WifiFailPoints == {"none", "stop", "init", "set_mode", "set_config", "start", "deinit"}

\* transition_to_state: the radio, posted events and result, for a transition
\* from `cur` to a different state `new` in which driver call `fail` fails.
WifiTransition(cur, new, r, fail) ==
  LET need_stop == cur # "NONE"
      r1 == IF need_stop THEN esp_wifi_stop(r) ELSE r
      ev1 == IF need_stop THEN esp_wifi_stop_events(r) ELSE <<>>
      r2 == IF cur = "NONE" THEN [r1 EXCEPT !.inited = TRUE] ELSE r1
      r3 == [r2 EXCEPT !.mode = target_mode(new)]
      r4 == esp_wifi_start(r3)
      ev4 == ev1 \o esp_wifi_start_events(r3)
  IN IF need_stop /\ fail = "stop" THEN [radio |-> r, events |-> <<>>, ok |-> FALSE]
     ELSE IF new = "NONE"
       THEN IF fail = "deinit" THEN [radio |-> r1, events |-> ev1, ok |-> FALSE]
            ELSE [radio |-> [r1 EXCEPT !.inited = FALSE, !.mode = "NULL"],
                  events |-> ev1, ok |-> TRUE]
     ELSE IF cur = "NONE" /\ fail = "init" THEN [radio |-> r1, events |-> ev1, ok |-> FALSE]
     ELSE IF fail = "set_mode" THEN [radio |-> r2, events |-> ev1, ok |-> FALSE]
     ELSE IF target_mode(new) \in ApModes /\ fail = "set_config"
       THEN [radio |-> r3, events |-> ev1, ok |-> FALSE]
     ELSE IF fail = "start" THEN [radio |-> r3, events |-> ev1, ok |-> FALSE]
     ELSE [radio |-> r4, events |-> ev4, ok |-> TRUE]

\* The state bit published for a state reached by transition_to_state.
WifiStateBit(new_state) == new_state

\* fsm_task: one iteration of the worker loop (wait, pick, transition_to_state).
WifiFsmTask ==
  /\ ~aborted
  /\ UNCHANGED lock_vars
  /\ UNCHANGED heap_free
  /\ wifi_bits' = wifi_request_bits
  /\ UNCHANGED nvs_bits
  /\ UNCHANGED <<nvs_vars, web_vars, boot_vars, aborted, caller_budget>>
  /\ wifi_request_bits # {}
  /\ wifi_request_bits' = BitsAfterWait(wifi_request_bits, WifiRequests, TRUE)
  /\ station_req_external' = FALSE
  /\ LET new == WifiPickRequest(wifi_request_bits)
     IN IF wifi_current_state = new
          THEN /\ wifi_ret' = "ESP_OK"
               /\ UNCHANGED <<wifi_current_state, wifi_state_bits, radio, wifi_events>>
          ELSE \E fail \in WifiFailPoints :
                 LET t == WifiTransition(wifi_current_state, new, radio, fail)
                 IN /\ radio' = t.radio
                    /\ wifi_events' = wifi_events \o t.events
                    /\ wifi_ret' = IF t.ok THEN "ESP_OK" ELSE "ESP_FAIL"
                    /\ wifi_current_state' = IF t.ok THEN new ELSE wifi_current_state
                    /\ wifi_state_bits' = IF t.ok THEN wifi_state_bits \cup {WifiStateBit(new)}
                                          ELSE wifi_state_bits
  /\ UNCHANGED <<retry_count, retry_timer, sta_config, disconnects, first_ap_disconnect,
                 no_match_seen>>

\* Sizes of sta_config.sta.ssid and .password (esp_wifi_types.h), the sizes
\* find_strongest_ssid passes to strlcpy.
MAX_SSID_LEN == 32
MAX_PASSPHRASE_LEN == 64

\* find_strongest_ssid: the inner loop over the configured credentials for one
\* scan record; `best` is [found, crash, rssi, ssid, password].  strncmp
\* through a NULL or freed name pointer is a crash; a NULL password copies as
\* the empty string here.
RECURSIVE match_settings(_, _, _, _)
match_settings(ap, settings, j, best) ==
  IF j > Len(settings) THEN best
  ELSE LET setting == settings[j]
           b == IF setting.ssid.st # "ok" THEN [best EXCEPT !.crash = TRUE]
                ELSE IF ap.ssid = CStr(setting.ssid.data) /\ ap.rssi > best.rssi
                  THEN [best EXCEPT
                          !.found = TRUE, !.rssi = ap.rssi,
                          !.ssid = CStr(strlcpy(<<>>, CStr(setting.ssid.data), MAX_SSID_LEN)),
                          !.password = CStr(strlcpy(<<>>, CStr(setting.password.data),
                                                    MAX_PASSPHRASE_LEN))]
                ELSE best
       IN match_settings(ap, settings, j + 1, b)

RECURSIVE match_records(_, _, _, _)
match_records(aps, i, settings, best) ==
  IF i > Len(aps) THEN best
  ELSE match_records(aps, i + 1, settings, match_settings(aps[i], settings, 1, best))

\* int8_t best_rssi = -127
InitialBestRssi == -127

find_strongest_ssid(c, aps) ==
  LET n == IF c.wifi_settings_count < Len(c.wifi_settings.data)
             THEN c.wifi_settings_count ELSE Len(c.wifi_settings.data)
  IN match_records(aps, 1, SubSeq(c.wifi_settings.data, 1, n),
                   [found |-> FALSE, crash |-> FALSE, rssi |-> InitialBestRssi,
                    ssid |-> <<>>, password |-> <<>>])

\* The request made by handle_sta_disconnected once the retries are used up.
FallbackState == "AP"
\* Variant: a stop event asks for the station to be brought up again.
StopEventRestartsStation == "STA"
\* The request made on WIFI_EVENT_STA_STOP / WIFI_EVENT_AP_STOP.
StopEventState == "NONE"

\* Variant: the retry test gives up one disconnect earlier.
RetryAllowedOneLess(count) == count + 1 < CONFIG_WIFI_RETRIES
\* handle_sta_disconnected: the retry test.
RetryAllowed(count) == count < CONFIG_WIFI_RETRIES

\* What the event handlers leave alone.
EventLoopOthers == <<nvs_vars, web_vars, boot_vars, caller_budget>>

\* wifi_event_handler, WIFI_EVENT_STA_START: ESP_ERROR_CHECK(start_wifi_scan()).
HandleStaStart ==
  /\ ~aborted
  /\ UNCHANGED lock_vars
  /\ UNCHANGED heap_free
  /\ UNCHANGED wake_vars
  /\ wifi_events # <<>> /\ Head(wifi_events) = "STA_START"
  /\ wifi_events' = Tail(wifi_events)
  /\ IF StationUsable(radio)
       THEN radio' = [radio EXCEPT !.link = "scanning"] /\ UNCHANGED aborted
       ELSE aborted' = TRUE /\ UNCHANGED radio
  /\ UNCHANGED <<wifi_current_state, wifi_request_bits, wifi_state_bits, retry_count,
                 retry_timer, sta_config, wifi_ret, disconnects, first_ap_disconnect,
                 station_req_external, no_match_seen, EventLoopOthers>>

\* wifi_event_handler, WIFI_EVENT_SCAN_DONE: ESP_ERROR_CHECK(connect_to_sta()).
\* esp_wifi_scan_get_ap_records hands over the records and frees the driver's list.
HandleScanDone ==
  /\ ~aborted
  /\ UNCHANGED lock_vars
  /\ UNCHANGED heap_free
  /\ UNCHANGED wake_vars
  /\ wifi_events # <<>> /\ Head(wifi_events) = "SCAN_DONE"
  /\ wifi_events' = Tail(wifi_events)
  /\ LET f == find_strongest_ssid(unit_config, radio.scan)
         r == [radio EXCEPT !.scan = <<>>]
     IN IF f.crash \/ ~f.found
          THEN /\ aborted' = TRUE
               /\ no_match_seen' = (no_match_seen \/ ~f.crash)
               /\ radio' = r
               /\ UNCHANGED sta_config
          ELSE /\ sta_config' = [ssid |-> f.ssid, password |-> f.password]
               /\ UNCHANGED no_match_seen
               /\ IF StationUsable(radio)
                    THEN radio' = [r EXCEPT !.link = "connecting"] /\ UNCHANGED aborted
                    ELSE aborted' = TRUE /\ radio' = r
  /\ UNCHANGED <<wifi_current_state, wifi_request_bits, wifi_state_bits, retry_count,
                 retry_timer, wifi_ret, disconnects, first_ap_disconnect, station_req_external,
                 EventLoopOthers>>

\* wifi_event_handler, WIFI_EVENT_STA_DISCONNECTED: handle_sta_disconnected.
HandleStaDisconnected ==
  /\ ~aborted
  /\ UNCHANGED lock_vars
  /\ UNCHANGED heap_free
  /\ UNCHANGED wake_vars
  /\ wifi_events # <<>> /\ Head(wifi_events) = "STA_DISCONNECTED"
  /\ wifi_events' = Tail(wifi_events)
  /\ disconnects' = disconnects + 1
  /\ IF RetryAllowed(retry_count)
       THEN /\ retry_timer' = TRUE
            /\ retry_count' = retry_count + 1
            /\ UNCHANGED <<wifi_request_bits, first_ap_disconnect>>
       ELSE /\ wifi_request_bits' =
                 wifi_request_bits \cup {wifi_manager_request_state(FallbackState)}
            /\ first_ap_disconnect' =
                 IF first_ap_disconnect = 0 THEN disconnects + 1 ELSE first_ap_disconnect
            /\ UNCHANGED <<retry_timer, retry_count>>
  /\ UNCHANGED <<wifi_current_state, wifi_state_bits, sta_config, wifi_ret, radio,
                 station_req_external, no_match_seen, aborted, EventLoopOthers>>

\* Variant: a stop event also clears the retry counter.
HandleStopResettingRetries ==
  /\ ~aborted
  /\ UNCHANGED lock_vars
  /\ UNCHANGED heap_free
  /\ UNCHANGED wake_vars
  /\ wifi_events # <<>> /\ Head(wifi_events) \in {"STA_STOP", "AP_STOP"}
  /\ wifi_events' = Tail(wifi_events)
  /\ wifi_request_bits' = wifi_request_bits \cup {wifi_manager_request_state(StopEventState)}
  /\ retry_count' = 0
  /\ UNCHANGED <<wifi_current_state, wifi_state_bits, retry_timer, sta_config,
                 wifi_ret, radio, disconnects, first_ap_disconnect, station_req_external,
                 no_match_seen, aborted, EventLoopOthers>>

\* wifi_event_handler, WIFI_EVENT_STA_STOP / WIFI_EVENT_AP_STOP.
HandleStop ==
  /\ ~aborted
  /\ UNCHANGED lock_vars
  /\ UNCHANGED heap_free
  /\ UNCHANGED wake_vars
  /\ wifi_events # <<>> /\ Head(wifi_events) \in {"STA_STOP", "AP_STOP"}
  /\ wifi_events' = Tail(wifi_events)
  /\ wifi_request_bits' = wifi_request_bits \cup {wifi_manager_request_state(StopEventState)}
  /\ UNCHANGED <<wifi_current_state, wifi_state_bits, retry_count, retry_timer, sta_config,
                 wifi_ret, radio, disconnects, first_ap_disconnect, station_req_external,
                 no_match_seen, aborted, EventLoopOthers>>

\* ip_event_handler, IP_EVENT_STA_GOT_IP: handle_sta_ip_obtained.
HandleGotIp ==
  /\ ~aborted
  /\ UNCHANGED lock_vars
  /\ UNCHANGED heap_free
  /\ UNCHANGED wake_vars
  /\ wifi_events # <<>> /\ Head(wifi_events) = "GOT_IP"
  /\ wifi_events' = Tail(wifi_events)
  /\ retry_count' = 0
  /\ wifi_state_bits' = wifi_state_bits \cup {"STA_IP_RECEIVED"}
  /\ disconnects' = 0
  /\ first_ap_disconnect' = 0
  /\ UNCHANGED <<wifi_current_state, wifi_request_bits, retry_timer, sta_config, wifi_ret,
                 radio, station_req_external, no_match_seen, aborted, EventLoopOthers>>

\* retry_timer_callback: esp_wifi_connect(), result ignored.
RetryTimerCallback ==
  /\ ~aborted
  /\ UNCHANGED lock_vars
  /\ UNCHANGED heap_free
  /\ UNCHANGED wake_vars
  /\ retry_timer
  /\ retry_timer' = FALSE
  /\ radio' = IF StationUsable(radio) /\ radio.link = "down"
                THEN [radio EXCEPT !.link = "connecting"] ELSE radio
  /\ UNCHANGED <<wifi_current_state, wifi_request_bits, wifi_state_bits, retry_count,
                 sta_config, wifi_ret, wifi_events, disconnects, first_ap_disconnect,
                 station_req_external, no_match_seen, aborted, EventLoopOthers>>

\* What the driver's own steps leave alone.
RadioOthers == <<wifi_current_state, wifi_request_bits, wifi_state_bits, retry_count,
                 retry_timer, sta_config, wifi_ret, disconnects, first_ap_disconnect,
                 station_req_external, no_match_seen, aborted, EventLoopOthers>>

\* The driver finishes a scan.
RadioScanDone ==
  /\ ~aborted
  /\ UNCHANGED lock_vars
  /\ UNCHANGED heap_free
  /\ UNCHANGED wake_vars
  /\ radio.link = "scanning"
  /\ Len(wifi_events) < MaxEvents
  /\ \E aps \in ScanLists : radio' = [radio EXCEPT !.link = "down", !.scan = aps]
  /\ wifi_events' = Append(wifi_events, "SCAN_DONE")
  /\ UNCHANGED RadioOthers

\* The station associates and DHCP hands out an address.
RadioGotIp ==
  /\ ~aborted
  /\ UNCHANGED lock_vars
  /\ UNCHANGED heap_free
  /\ UNCHANGED wake_vars
  /\ radio.link = "connecting"
  /\ Len(wifi_events) < MaxEvents
  /\ radio' = [radio EXCEPT !.link = "up"]
  /\ wifi_events' = Append(wifi_events, "GOT_IP")
  /\ UNCHANGED RadioOthers

\* The connection attempt fails or the link is lost.
RadioLinkLost ==
  /\ ~aborted
  /\ UNCHANGED lock_vars
  /\ UNCHANGED heap_free
  /\ UNCHANGED wake_vars
  /\ radio.link \in {"connecting", "up"}
  /\ Len(wifi_events) < MaxEvents
  /\ disconnects < MaxDisconnects
  /\ radio' = [radio EXCEPT !.link = "down"]
  /\ wifi_events' = Append(wifi_events, "STA_DISCONNECTED")
  /\ UNCHANGED RadioOthers

\* Any other task requesting a Wi-Fi state through the public API.
CallerRequestWifi ==
  /\ ~aborted
  /\ UNCHANGED lock_vars
  /\ UNCHANGED heap_free
  /\ UNCHANGED wake_vars
  /\ caller_budget.wifi > 0
  /\ caller_budget' = [caller_budget EXCEPT !.wifi = @ - 1]
  /\ \E st \in WifiStates :
       /\ wifi_request_bits' = wifi_request_bits \cup {wifi_manager_request_state(st)}
       /\ station_req_external' = (station_req_external \/ st \in {"STA", "AP_STA"})
  /\ UNCHANGED <<wifi_current_state, wifi_state_bits, retry_count, retry_timer, sta_config,
                 wifi_ret, radio, wifi_events, disconnects, first_ap_disconnect,
                 no_match_seen, aborted, nvs_vars, web_vars, boot_vars>>

\* ------------------------------------------------------- web page manager
WebRequests == {"NONE_REQUEST", "SERVING_REQUEST", "DNS_SERVER_NONE_REQUEST", "DNS_SERVER_REQUEST"}

WebInit ==
  /\ web_request_bits = {}
  /\ web_state_bits = {}
  /\ web_pc = "start"
  /\ web_bits = {}
  /\ web_ret = "ESP_OK"
  /\ http_server = FALSE
  /\ dns_server = FALSE

\* fsm_task, before its loop: publishes NONE and DNS_SERVER_NONE.
WebFsmStart ==
  /\ ~aborted
  /\ UNCHANGED lock_vars
  /\ UNCHANGED heap_free
  /\ UNCHANGED wake_vars
  /\ web_pc = "start"
  /\ web_pc' = "loop"
  /\ web_state_bits' = web_state_bits \cup {"NONE", "DNS_SERVER_NONE"}
  /\ UNCHANGED <<web_request_bits, web_bits, web_ret, http_server, dns_server, nvs_vars,
                 wifi_vars, boot_vars, aborted, caller_budget>>

\* transition_to_state, first if-chain: the branch taken for the published
\* state bits `st` and the requests `req`.
WebPagesBranch(st, req) ==
  IF "SERVING" \in st /\ "NONE_REQUEST" \in req THEN "cleanup_web_page_manager"
  ELSE IF "NONE" \in st /\ "SERVING_REQUEST" \in req THEN "init_web_pages"
  ELSE "none"

\* transition_to_state, first if-chain: the HTTP server.
\* Returns the state bits, the server and the result; `ok` is init_web_pages' outcome.
WebPagesTransition(st, req, server, ok) ==
  CASE WebPagesBranch(st, req) = "cleanup_web_page_manager"
         -> [bits |-> st \cup {"NONE"}, server |-> FALSE, ret |-> "ESP_OK"]
    [] WebPagesBranch(st, req) = "init_web_pages"
         -> [bits |-> st \cup {"SERVING"}, server |-> (server \/ ok),
             ret |-> IF ok THEN "ESP_OK" ELSE "ESP_FAIL"]
    [] OTHER -> [bits |-> st, server |-> server, ret |-> "ESP_OK"]

\* transition_to_state, second if-chain: the DNS server.
WebDnsTransition(st, req, dns) ==
  IF "DNS_SERVER_ACTIVE" \in st /\ "DNS_SERVER_NONE_REQUEST" \in req
    THEN [bits |-> st \cup {"DNS_SERVER_NONE"}, dns |-> FALSE]
  ELSE IF "DNS_SERVER_NONE" \in st /\ "DNS_SERVER_REQUEST" \in req
    THEN [bits |-> st \cup {"DNS_SERVER_ACTIVE"}, dns |-> TRUE]
  ELSE [bits |-> st, dns |-> dns]

\* fsm_task: the worker wakes with the pending requests and transition_to_state
\* runs its first if-chain (the HTTP server).
WebFsmTask ==
  /\ ~aborted
  /\ UNCHANGED lock_vars
  /\ UNCHANGED heap_free
  /\ UNCHANGED wake_vars
  /\ web_pc = "loop"
  /\ web_request_bits # {}
  /\ web_request_bits' = BitsAfterWait(web_request_bits, WebRequests, TRUE)
  /\ web_bits' = web_request_bits
  /\ web_pc' = "dns"
  /\ \E ok \in BOOLEAN :
       LET t1 == WebPagesTransition(web_state_bits, web_request_bits, http_server, ok)
       IN /\ web_state_bits' = t1.bits
          /\ http_server' = t1.server
          /\ web_ret' = t1.ret
  /\ UNCHANGED <<dns_server, nvs_vars, wifi_vars, boot_vars, aborted, caller_budget>>

\* transition_to_state goes on with its second if-chain (the DNS server) and
\* returns to fsm_task's wait.
WebFsmDns ==
  /\ ~aborted
  /\ UNCHANGED lock_vars
  /\ UNCHANGED heap_free
  /\ UNCHANGED wake_vars
  /\ web_pc = "dns"
  /\ web_pc' = "loop"
  /\ LET t2 == WebDnsTransition(web_state_bits, web_bits, dns_server)
     IN /\ web_state_bits' = t2.bits
        /\ dns_server' = t2.dns
  /\ UNCHANGED <<web_request_bits, web_bits, web_ret, http_server, nvs_vars, wifi_vars,
                 boot_vars, aborted, caller_budget>>

\* Any other task requesting a web page manager state.
CallerRequestWeb ==
  /\ ~aborted
  /\ UNCHANGED lock_vars
  /\ UNCHANGED heap_free
  /\ UNCHANGED wake_vars
  /\ caller_budget.web > 0
  /\ caller_budget' = [caller_budget EXCEPT !.web = @ - 1]
  /\ \E r \in WebRequests : web_request_bits' = web_request_bits \cup {r}
  /\ UNCHANGED <<web_state_bits, web_pc, web_bits, web_ret, http_server, dns_server, nvs_vars,
                 wifi_vars, boot_vars, aborted>>

\* ------------------------------------------------------- HTTP POST handlers
\* sizeof(char*) on the 32-bit target: the size wifi_post_handler passes to strlcpy.
SizeofCharPtr == 4

\* The "networks" arrays an operator may post: <<ssid, pass>> pairs.
PostedNetworks ==
  { <<>>,
    << <<1>>, <<2>> >>,
    << <<2, 1, 2, 1>>, <<1>> >> }
\* The "ota_url" / "version_url" values an operator may post (<<>> = member absent).
PostedUrls == { <<>>, <<2>>, <<2, 1, 2>> }

\* What the handlers leave alone.
HandlerOthers == <<nvs_current_state, nvs_state_bits, nvs_flash_inited, nvs_pc, nvs_ret, nvs_key,
                   init_hist, nvs_io_error, wifi_vars, web_vars, boot_vars>>

\* wifi_post_handler: the array it mallocs is never initialised, so the lengths
\* keep what the heap held and the strings are copied through the heap's
\* leftover pointers: the copy either faults or lands wherever they point.
wifi_post_handler ==
  /\ ~aborted
  /\ UNCHANGED lock_vars
  /\ UNCHANGED heap_free
  /\ UNCHANGED wake_vars
  /\ http_server
  /\ caller_budget.post > 0
  /\ caller_budget' = [caller_budget EXCEPT !.post = @ - 1]
  /\ \E net \in PostedNetworks :
       IF net = <<>>                          \* "Invalid JSON" / "Expected networks array"
         THEN UNCHANGED <<unit_config, aborted>>
         ELSE \/ aborted' = TRUE /\ UNCHANGED unit_config
              \/ \E junk \in JunkBytes :
                   /\ unit_config' =
                        [unit_config EXCEPT
                           !.wifi_settings =
                              Ptr(<<[ssid_len |-> junk, password_len |-> junk,
                                    ssid |-> Ptr(CStr(strlcpy(<<>>, net[1], SizeofCharPtr))),
                                    password |-> Ptr(CStr(strlcpy(<<>>, net[2], SizeofCharPtr)))]>>),
                           !.wifi_settings_count = 1]
                   /\ UNCHANGED aborted
  /\ UNCHANGED <<nvs_request_bits, busy_arrivals, HandlerOthers>>

\* strlcpy(config->con_config.<url>, value, MAX_URL_LENGTH) in ota_post_handler:
\* the pointer after the copy; UrlFits says whether the buffer of `len` bytes
\* the decoder allocated holds the value and its terminator.
UrlFits(len, value) == Len(value) + 1 <= len
UrlAfterCopy(p, len, value) ==
  Ptr(SubSeq(strlcpy(MemRead(p, len), value, MAX_URL_LENGTH), 1, len))

\* ota_post_handler: copies the posted URLs into the buffers shared_data
\* already points to, leaves the length fields alone and requests a write.
ota_post_handler ==
  /\ ~aborted
  /\ UNCHANGED lock_vars
  /\ UNCHANGED heap_free
  /\ UNCHANGED wake_vars
  /\ http_server
  /\ caller_budget.post > 0
  /\ caller_budget' = [caller_budget EXCEPT !.post = @ - 1]
  /\ \E ota_url \in PostedUrls, version_url \in PostedUrls :
       LET c == unit_config
           fault == \/ ota_url # <<>> /\ c.ota_url.st # "ok"
                    \/ version_url # <<>> /\ c.version_url.st # "ok"
           overrun == \/ ota_url # <<>> /\ ~UrlFits(c.ota_url_len, ota_url)
                      \/ version_url # <<>> /\ ~UrlFits(c.version_url_len, version_url)
           copied == [c EXCEPT
                        !.ota_url = IF ota_url # <<>>
                                      THEN UrlAfterCopy(@, c.ota_url_len, ota_url) ELSE @,
                        !.version_url = IF version_url # <<>>
                                          THEN UrlAfterCopy(@, c.version_url_len, version_url)
                                          ELSE @]
       IN \/ /\ fault \/ overrun              \* write through NULL / past the buffer
             /\ aborted' = TRUE
             /\ UNCHANGED <<unit_config, nvs_request_bits, busy_arrivals>>
          \/ /\ ~fault
             /\ unit_config' = copied
             /\ nvs_manager_request_state("WRITE_REQUEST")
             /\ UNCHANGED aborted
  /\ UNCHANGED HandlerOthers

\* ----------------------------------------------------------- wait_until
\* Variant: the wait returns whatever the group holds.
WaitReturnsAtOnce(bits, mask, xWaitForAllBits) == TRUE
\* xEventGroupWaitBits returns once the waited bits are there.
WaitSatisfied(bits, mask, xWaitForAllBits) ==
  IF xWaitForAllBits THEN mask \subseteq bits ELSE mask \cap bits # {}

\* The xClearOnExit / xWaitForAllBits arguments of the three wait_until_state.
NvsWaitClearOnExit == FALSE
NvsWaitForAllBits == FALSE
\* Variant: the wait consumes the bits it waited on.
WifiWaitConsumes == TRUE
WifiWaitClearOnExit == FALSE
WifiWaitForAllBits == TRUE
WebWaitClearOnExit == FALSE
WebWaitForAllBits == FALSE

nvs_manager_wait_until_state(wait_state) ==
  /\ WaitSatisfied(nvs_state_bits, wait_state, NvsWaitForAllBits)
  /\ nvs_state_bits' = BitsAfterWait(nvs_state_bits, wait_state, NvsWaitClearOnExit)

wifi_manager_wait_until_state(wifi_state) ==
  /\ WaitSatisfied(wifi_state_bits, wifi_state, WifiWaitForAllBits)
  /\ wifi_state_bits' = BitsAfterWait(wifi_state_bits, wifi_state, WifiWaitClearOnExit)

web_page_manager_wait_until_state(wait_state) ==
  /\ WaitSatisfied(web_state_bits, wait_state, WebWaitForAllBits)
  /\ web_state_bits' = BitsAfterWait(web_state_bits, wait_state, WebWaitClearOnExit)

\* ------------------------------------------------------------ boot task
BootVariants == {"app_main", "init_boiler_plate"}

\* What each entry point requests of and awaits from the Wi-Fi manager.
BootWifiRequest(variant) == IF variant = "app_main" THEN "AP" ELSE "STA"
BootWifiWait(variant) == IF variant = "app_main" THEN {"AP"} ELSE {"STA_IP_RECEIVED"}
\* What each entry point requests of and awaits from the web page manager.
BootWebRequest(variant) ==
  IF variant = "app_main" THEN {"SERVING_REQUEST", "DNS_SERVER_REQUEST"} ELSE {"SERVING_REQUEST"}
BootWebWait(variant) ==
  IF variant = "app_main" THEN {"SERVING", "DNS_SERVER_ACTIVE"} ELSE {"SERVING"}

BootInit ==
  /\ boot_variant \in BootVariants
  /\ boot_pc = "start"
  /\ observer_pc = "idle"
  /\ observer_late = FALSE

\* nvs_manager_request_state(nvs_manager, NVS_STATE_READY_REQUEST)
BootRequestNvs ==
  /\ ~aborted
  /\ UNCHANGED lock_vars
  /\ UNCHANGED heap_free
  /\ UNCHANGED wake_vars
  /\ boot_pc = "start"
  /\ boot_pc' = "wait_nvs"
  /\ nvs_manager_request_state("READY_REQUEST")
  /\ UNCHANGED <<nvs_current_state, nvs_state_bits, nvs_flash_inited, nvs_pc, nvs_ret,
                 nvs_key, unit_config, init_hist, nvs_io_error, wifi_vars, web_vars, boot_variant,
                 observer_pc, observer_late, aborted, caller_budget>>

\* nvs_manager_wait_until_state(NVS_READY) returns; the Wi-Fi state is requested.
BootNvsReady ==
  /\ ~aborted
  /\ UNCHANGED lock_vars
  /\ UNCHANGED heap_free
  /\ UNCHANGED wake_vars
  /\ boot_pc = "wait_nvs"
  /\ nvs_manager_wait_until_state({"READY"})
  /\ boot_pc' = "wait_wifi"
  /\ wifi_request_bits' =
       wifi_request_bits \cup {wifi_manager_request_state(BootWifiRequest(boot_variant))}
  /\ station_req_external' = (station_req_external \/ BootWifiRequest(boot_variant) = "STA")
  /\ UNCHANGED <<nvs_current_state, nvs_request_bits, nvs_flash_inited, nvs_pc, nvs_ret,
                 nvs_key, unit_config, busy_arrivals, init_hist, nvs_io_error,
                 wifi_current_state, wifi_state_bits, retry_count, retry_timer, sta_config,
                 wifi_ret, radio, wifi_events, disconnects, first_ap_disconnect,
                 no_match_seen, web_vars, boot_variant, observer_pc, observer_late, aborted, caller_budget>>

\* wifi_manager_wait_until_state returns; the web page state is requested.
BootWifiReached ==
  /\ ~aborted
  /\ UNCHANGED lock_vars
  /\ UNCHANGED heap_free
  /\ UNCHANGED wake_vars
  /\ boot_pc = "wait_wifi"
  /\ wifi_manager_wait_until_state(BootWifiWait(boot_variant))
  /\ boot_pc' = "wait_web"
  /\ web_request_bits' = web_request_bits \cup BootWebRequest(boot_variant)
  /\ UNCHANGED <<wifi_current_state, wifi_request_bits, retry_count, retry_timer, sta_config,
                 wifi_ret, radio, wifi_events, disconnects, first_ap_disconnect,
                 station_req_external, no_match_seen,
                 web_state_bits, web_pc, web_bits, web_ret, http_server, dns_server,
                 nvs_vars, boot_variant, observer_pc, observer_late, aborted, caller_budget>>

\* web_page_manager_wait_until_state returns; the boot task ends.
BootWebServing ==
  /\ ~aborted
  /\ UNCHANGED lock_vars
  /\ UNCHANGED heap_free
  /\ UNCHANGED wake_vars
  /\ boot_pc = "wait_web"
  /\ web_page_manager_wait_until_state(BootWebWait(boot_variant))
  /\ boot_pc' = "done"
  /\ UNCHANGED <<web_request_bits, web_pc, web_bits, web_ret, http_server, dns_server,
                 nvs_vars, wifi_vars, boot_variant, observer_pc, observer_late, aborted, caller_budget>>

\* A second task calls wifi_manager_wait_until_state(WIFI_MANAGER_STATE_AP_BIT) ...
ObserverWait ==
  /\ ~aborted
  /\ UNCHANGED lock_vars
  /\ UNCHANGED heap_free
  /\ UNCHANGED wake_vars
  /\ observer_pc = "idle"
  /\ observer_pc' = "waiting"
  /\ observer_late' = (wifi_current_state # "AP" /\ "AP" \in wifi_state_bits)
  /\ UNCHANGED <<nvs_vars, wifi_vars, web_vars, boot_variant, boot_pc, aborted, caller_budget>>

\* ... and the call returns.
ObserverReturn ==
  /\ ~aborted
  /\ UNCHANGED lock_vars
  /\ UNCHANGED heap_free
  /\ UNCHANGED wake_vars
  /\ observer_pc = "waiting"
  /\ wifi_manager_wait_until_state({"AP"})
  /\ observer_pc' = "returned"
  /\ UNCHANGED <<wifi_current_state, wifi_request_bits, retry_count, retry_timer, sta_config,
                 wifi_ret, radio, wifi_events, disconnects, first_ap_disconnect,
                 station_req_external, no_match_seen,
                 nvs_vars, web_vars, boot_variant, boot_pc, observer_late, aborted,
                 caller_budget>>

\* ----------------------------------------------------------- the mutexes
\* The tasks that call unit_config_acquire, get_*_manager or set_*_manager:
\* the boot task, the NVS worker, the event loop task (find_strongest_ssid)
\* and the HTTP server task (the POST handlers).
Threads == {"app_main", "nvs_fsm", "event_loop", "httpd"}
Mutexes == {"state_mutex", "managers_mutex"}

\* The steps of a function that concern the mutexes, in program order.
Take(m) == [op |-> "take", mutex |-> m]
Give(m) == [op |-> "give", mutex |-> m]
Deref == [op |-> "deref", mutex |-> "state_mutex"]    \* use of the pointer to shared_data
Yield == [op |-> "yield", mutex |-> "none"]           \* taskYIELD()

\* set_nvs_manager, set_wifi_manager, set_web_page_manager in app_main.
SetManagersLocking ==
  <<Take("managers_mutex"), Give("managers_mutex"),
    Take("managers_mutex"), Give("managers_mutex"),
    Take("managers_mutex"), Give("managers_mutex")>>
\* unit_config_acquire ... unit_config_release around the use of the pointer.
AcquireUseRelease == <<Take("state_mutex"), Deref, Give("state_mutex")>>
\* Variant: the manager fetched before the configuration is released.
HandlerLockingNested ==
  <<Take("state_mutex"), Deref, Take("managers_mutex"), Give("managers_mutex"),
    Give("state_mutex")>>
\* ota_post_handler, sys_post_handler, user_post_handler: the configuration is
\* released, then get_nvs_manager (which returns holding managers_mutex),
\* nvs_manager_request_state, managers_release.
HandlerLocking ==
  <<Take("state_mutex"), Deref, Give("state_mutex"),
    Take("managers_mutex"), Give("managers_mutex")>>

PathOps(path) ==
  CASE path = "set_managers" -> SetManagersLocking
    [] path = "store_default_then_read" -> AcquireUseRelease \o AcquireUseRelease
    [] path = "read_nvs_into_config" -> AcquireUseRelease
    [] path = "update_nvs_from_config" -> AcquireUseRelease
    [] path = "find_strongest_ssid" ->
         <<Take("state_mutex"), Deref, Yield, Deref, Give("state_mutex")>>
    [] path = "wifi_post_handler" -> AcquireUseRelease
    [] path = "ota_post_handler" -> HandlerLocking
    [] path = "sys_post_handler" -> HandlerLocking
    [] path = "user_post_handler" -> HandlerLocking
    [] path = "user_post_handler_no_memory" -> <<Take("state_mutex"), Give("state_mutex")>>
    \* fail_mode_web_page.c and nvs_mgmt.c, the tasks init_foundation builds on
    [] path = "parse_form_data" -> AcquireUseRelease
    [] path = "parse_form_data_no_memory" -> <<Take("state_mutex"), Deref>>
    [] path = "nvs_mgmt_read_nvs_into_config" -> AcquireUseRelease
    [] path = "nvs_mgmt_read_nvs_into_config_open_failed" -> <<Give("state_mutex")>>
    [] OTHER -> <<>>

\* The functions each task may run, any number of times.
ThreadPaths(t) ==
  CASE t = "nvs_fsm" -> {"store_default_then_read", "read_nvs_into_config",
                         "update_nvs_from_config"}
    [] t = "event_loop" -> {"find_strongest_ssid"}
    [] t = "httpd" -> {"wifi_post_handler", "ota_post_handler", "sys_post_handler",
                       "user_post_handler", "user_post_handler_no_memory"}
    [] OTHER -> {}

\* The functions the tasks of init_foundation may run: the NVS task of
\* nvs_mgmt.c and the HTTP server of fail_mode_web_page.c.
FoundationPaths(t) ==
  CASE t = "nvs_fsm" -> {"nvs_mgmt_read_nvs_into_config",
                         "nvs_mgmt_read_nvs_into_config_open_failed"}
    [] t = "httpd" -> {"parse_form_data", "parse_form_data_no_memory"}
    [] OTHER -> {}

Idle == [path |-> "idle", at |-> 0]

\* No fsm_task has returned from its first wait yet.
WakeInit ==
  /\ nvs_bits = {}
  /\ wifi_bits = {}

\* unit_config_init has created both mutexes; app_main is about to register
\* the managers it created, whose tasks already run.
LockInit ==
  /\ mutex_holder = [m \in Mutexes |-> "free"]
  /\ thread_pc = [t \in Threads |->
                    IF t = "app_main" THEN [path |-> "set_managers", at |-> 1] ELSE Idle]

\* The step task t is about to take (Yield-like no-op record when it has none).
NextOp(t) ==
  LET ops == PathOps(thread_pc[t].path)
  IN IF thread_pc[t].at \in 1..Len(ops) THEN ops[thread_pc[t].at]
     ELSE [op |-> "none", mutex |-> "none"]

\* The position after the step: back to idle behind the function's last step.
Advance(t) ==
  LET pc == thread_pc[t]
  IN thread_pc' = [thread_pc EXCEPT ![t] = IF pc.at >= Len(PathOps(pc.path)) THEN Idle
                                           ELSE [pc EXCEPT !.at = @ + 1]]

LockOthers == <<nvs_vars, wifi_vars, web_vars, boot_vars, caller_budget, wake_vars, heap_free>>

\* A task enters one of its functions.
ThreadCall ==
  /\ ~aborted
  /\ \E t \in Threads : \E path \in ThreadPaths(t) :
       /\ thread_pc[t] = Idle
       /\ thread_pc' = [thread_pc EXCEPT ![t] = [path |-> path, at |-> 1]]
  /\ UNCHANGED <<mutex_holder, aborted, LockOthers>>

\* A task of init_foundation enters one of its functions.
FoundationCall ==
  /\ ~aborted
  /\ \E t \in Threads : \E path \in FoundationPaths(t) :
       /\ thread_pc[t] = Idle
       /\ thread_pc' = [thread_pc EXCEPT ![t] = [path |-> path, at |-> 1]]
  /\ UNCHANGED <<mutex_holder, aborted, LockOthers>>

\* Variant: the take returns although another task holds the mutex.
TakeWithoutWaiting(m) == TRUE
\* xSemaphoreTake(m, portMAX_DELAY) returns once the mutex is free.
MayTake(m) == mutex_holder[m] = "free"

xSemaphoreTake ==
  /\ ~aborted
  /\ \E t \in Threads :
       /\ NextOp(t).op = "take"
       /\ MayTake(NextOp(t).mutex)
       /\ mutex_holder' = [mutex_holder EXCEPT ![NextOp(t).mutex] = t]
       /\ Advance(t)
  /\ UNCHANGED <<aborted, LockOthers>>

\* xSemaphoreGive(m): frees the mutex.  Given on a free mutex it fails and
\* changes nothing; given by a task while another holds the mutex, the
\* kernel's assertion on the holder stops the firmware, or, in a build without
\* assertions, the mutex is taken from its holder.
xSemaphoreGive ==
  /\ ~aborted
  /\ \E t \in Threads :
       /\ NextOp(t).op = "give"
       /\ IF mutex_holder[NextOp(t).mutex] = t
            THEN /\ mutex_holder' = [mutex_holder EXCEPT ![NextOp(t).mutex] = "free"]
                 /\ UNCHANGED aborted
            ELSE IF mutex_holder[NextOp(t).mutex] = "free"
              THEN UNCHANGED <<mutex_holder, aborted>>
            ELSE \/ /\ aborted' = TRUE
                    /\ UNCHANGED mutex_holder
                 \/ /\ mutex_holder' = [mutex_holder EXCEPT ![NextOp(t).mutex] = "free"]
                    /\ UNCHANGED aborted
       /\ Advance(t)
  /\ UNCHANGED LockOthers

\* The task reads or writes shared_data through the pointer it was given, or
\* yields the processor in the middle of doing so.
ConfigDeref ==
  /\ ~aborted
  /\ \E t \in Threads :
       /\ NextOp(t).op \in {"deref", "yield"}
       /\ Advance(t)
  /\ UNCHANGED <<mutex_holder, aborted, LockOthers>>

\* --------------------------------------------------------- specification
Init ==
  /\ NvsInit
  /\ WifiInit
  /\ WebInit
  /\ BootInit
  /\ LockInit
  /\ WakeInit
  /\ heap_free = TRUE
  /\ aborted = FALSE
  /\ caller_budget = [nvs |-> MaxNvsRequests, wifi |-> MaxWifiRequests, web |-> MaxWebRequests,
                      post |-> MaxPosts]

Next ==
  \/ HeapExhausted
  \/ ThreadCall
  \/ FoundationCall
  \/ xSemaphoreTake
  \/ xSemaphoreGive
  \/ ConfigDeref
  \/ NvsFsmWake
  \/ NvsFinishRead
  \/ NvsFinishWrite
  \/ NvsFinishDeinit
  \/ CallerRequestNvs
  \/ WifiFsmTask
  \/ HandleStaStart
  \/ HandleScanDone
  \/ HandleStaDisconnected
  \/ HandleStop
  \/ HandleGotIp
  \/ RetryTimerCallback
  \/ RadioScanDone
  \/ RadioGotIp
  \/ RadioLinkLost
  \/ CallerRequestWifi
  \/ WebFsmStart
  \/ WebFsmTask
  \/ WebFsmDns
  \/ CallerRequestWeb
  \/ BootRequestNvs
  \/ BootNvsReady
  \/ BootWifiReached
  \/ BootWebServing
  \/ ObserverWait
  \/ ObserverReturn
  \/ wifi_post_handler
  \/ ota_post_handler

Spec == Init /\ [][Next]_vars

\* The configuration manager with its callers and waiters alone.
NextNvs ==
  \/ NvsFsmWake
  \/ NvsFinishRead
  \/ NvsFinishWrite
  \/ NvsFinishDeinit
  \/ CallerRequestNvs
  \/ BootRequestNvs
  \/ BootNvsReady

SpecNvs == Init /\ [][NextNvs]_vars

\* The boot sequence and the Wi-Fi manager with its driver, event loop and callers.
NextWifi ==
  \/ BootRequestNvs
  \/ NvsFsmWake
  \/ BootNvsReady
  \/ WifiFsmTask
  \/ HandleStaStart
  \/ HandleScanDone
  \/ HandleStaDisconnected
  \/ HandleStop
  \/ HandleGotIp
  \/ RetryTimerCallback
  \/ RadioScanDone
  \/ RadioGotIp
  \/ RadioLinkLost
  \/ CallerRequestWifi
  \/ BootWifiReached
  \/ WebFsmStart
  \/ WebFsmTask
  \/ WebFsmDns
  \/ BootWebServing
  \/ ObserverWait
  \/ ObserverReturn

SpecWifi == Init /\ [][NextWifi]_vars

\* The configuration manager, the web page manager and the forms posted to it.
NextPortal ==
  \/ BootRequestNvs
  \/ NvsFsmWake
  \/ NvsFinishRead
  \/ NvsFinishWrite
  \/ NvsFinishDeinit
  \/ CallerRequestNvs
  \/ WebFsmStart
  \/ CallerRequestWeb
  \/ WebFsmTask
  \/ WebFsmDns
  \/ wifi_post_handler
  \/ ota_post_handler

SpecPortal == Init /\ [][NextPortal]_vars

\* The tasks around the two mutexes of state.c, on a device whose flash holds
\* a configuration and that is built with app_main.
InitLock ==
  /\ Init
  /\ nvs_key = BlobA
  /\ boot_variant = "app_main"

NextLock ==
  \/ ThreadCall
  \/ xSemaphoreTake
  \/ xSemaphoreGive
  \/ ConfigDeref

SpecLock == InitLock /\ [][NextLock]_vars

\* The tasks of init_foundation around the mutex of state.c.
NextFoundationLock ==
  \/ FoundationCall
  \/ xSemaphoreTake
  \/ xSemaphoreGive
  \/ ConfigDeref

SpecFoundationLock == InitLock /\ [][NextFoundationLock]_vars

\* The three workers and the tasks that request states from them, on a device
\* whose flash holds a configuration.
InitManagers ==
  /\ Init
  /\ nvs_key = BlobA
  /\ boot_variant = "app_main"

NextManagers ==
  \/ NvsFsmWake
  \/ NvsFinishRead
  \/ NvsFinishWrite
  \/ NvsFinishDeinit
  \/ CallerRequestNvs
  \/ WifiFsmTask
  \/ CallerRequestWifi
  \/ WebFsmStart
  \/ WebFsmTask
  \/ WebFsmDns
  \/ CallerRequestWeb

SpecManagers == InitManagers /\ [][NextManagers]_vars

\* The NVS and Wi-Fi workers with every task that requests states from them:
\* the boot task and the callers of the public API.
NextRequests ==
  \/ BootRequestNvs
  \/ BootNvsReady
  \/ CallerRequestNvs
  \/ CallerRequestWifi
  \/ NvsFsmWake
  \/ NvsFinishRead
  \/ NvsFinishWrite
  \/ NvsFinishDeinit
  \/ WifiFsmTask

SpecRequests == InitManagers /\ [][NextRequests]_vars

\* The NVS manager on a device whose flash is empty or holds a configuration,
\* while the other tasks may use up the heap.
InitLowMemory ==
  /\ Init
  /\ nvs_key \in {<<>>, BlobA}

NextLowMemory ==
  \/ HeapExhausted
  \/ NvsFsmWake
  \/ NvsFinishRead
  \/ NvsFinishWrite
  \/ NvsFinishDeinit
  \/ CallerRequestNvs
  \/ BootRequestNvs
  \/ BootNvsReady

SpecLowMemory == InitLowMemory /\ [][NextLowMemory]_vars

\* A string of n non-zero bytes.
Bytes(n) == [i \in 1..n |-> 1 + (i % 255)]

\* Valid configurations with their fields at the ends of their ranges: no
\* credential and empty strings; 255 credentials, the first with a 32-byte
\* name and a 64-byte password, and 255-byte URLs and unit name; and the
\* compiled-in defaults.
EmptyConfig == [ZeroConfig EXCEPT !.log_level = 5]
BoundaryConfig ==
  [ZeroConfig EXCEPT
     !.wifi_settings_count = 255,
     !.wifi_settings = Ptr([j \in 1..255 |->
                              IF j = 1 THEN WifiSetting(Bytes(32), Bytes(64))
                              ELSE WifiSetting(<<1 + (j % 2)>>, <<2>>)]),
     !.ota_url_len = 255, !.ota_url = Ptr(Bytes(255)),
     !.version_url_len = 255, !.version_url = Ptr(Bytes(255)),
     !.log_level = 1,
     !.unit_name_len = 255, !.unit_name = Ptr(Bytes(255))]
NoCredentialsConfig ==
  [StoredConfigA EXCEPT !.wifi_settings_count = 0, !.wifi_settings = NullPtr,
                        !.version_url_len = 2, !.version_url = Ptr(<<1, 2>>)]
CodecConfigs ==
  { EmptyConfig, NoCredentialsConfig, BoundaryConfig, StoredConfigA, DefaultConfig(ZeroConfig),
    [StoredConfigA EXCEPT !.wifi_settings_count = 2,
                          !.wifi_settings = Ptr(<<WifiSetting(<<1>>, <<>>),
                                                  WifiSetting(Bytes(32), <<2, 1>>)>>)] }

\* Power-up with the blob of one of these configurations in the flash.
InitCodec ==
  /\ nvs_current_state = "NONE" /\ nvs_request_bits = {} /\ nvs_state_bits = {} /\ nvs_flash_inited = FALSE
  /\ nvs_pc = "wait" /\ nvs_ret = "ESP_OK"
  /\ \E c \in CodecConfigs : nvs_key = SerializedBlob(c)
  /\ unit_config = ZeroConfig
  /\ busy_arrivals = {}
  /\ init_hist = [done |-> FALSE, absent |-> FALSE, mismatch |-> FALSE, wrote_default |-> FALSE,
                  read_done |-> FALSE, written |-> <<>>]
  /\ nvs_io_error = FALSE
  /\ WifiInit
  /\ WebInit
  /\ BootInit
  /\ LockInit
  /\ WakeInit
  /\ heap_free = TRUE
  /\ aborted = FALSE
  /\ caller_budget = [nvs |-> MaxNvsRequests, wifi |-> 0, web |-> 0, post |-> 0]

\* The configuration manager reading and writing these blobs.
SpecCodec == InitCodec /\ [][NextNvs]_vars

\* Credential lists an operator may have stored: distinct names in either
\* order, one name twice with different passwords, a name of 32 bytes.
CredentialLists ==
  { << WifiSetting(<<1>>, <<1>>) >>,
    << WifiSetting(<<1>>, <<1>>), WifiSetting(<<2>>, <<2>>) >>,
    << WifiSetting(<<2>>, <<2>>), WifiSetting(<<1>>, <<1>>) >>,
    << WifiSetting(<<1>>, <<1>>), WifiSetting(<<1>>, <<2>>) >>,
    << WifiSetting(<<1>>, <<2>>), WifiSetting(<<1>>, <<1>>) >>,
    << WifiSetting(LongSsid, <<1>>), WifiSetting(<<2>>, <<2>>) >>,
    << WifiSetting(<<3>>, <<1>>), WifiSetting(<<2>>, <<2>>), WifiSetting(<<1>>, <<1>>) >> }

\* The firmware of init_boiler_plate in Station mode with its first scan under
\* way, for each stored credential list: NVS is READY and has read the
\* configuration, the Wi-Fi manager has carried out the boot task's STA request
\* and WIFI_EVENT_STA_START has started the scan.
InitSelect ==
  /\ \E creds \in CredentialLists :
       /\ unit_config = [DefaultConfig(ZeroConfig) EXCEPT !.wifi_settings_count = Len(creds),
                                                         !.wifi_settings = Ptr(creds)]
       /\ nvs_key = SerializedBlob(unit_config)
  /\ nvs_current_state = "READY"
  /\ nvs_request_bits = {}
  /\ nvs_state_bits = {"READY"}
  /\ nvs_flash_inited = TRUE
  /\ nvs_pc = "wait"
  /\ nvs_ret = "ESP_OK"
  /\ busy_arrivals = {}
  /\ init_hist = [done |-> TRUE, absent |-> FALSE, mismatch |-> FALSE, wrote_default |-> FALSE,
                  read_done |-> FALSE, written |-> <<>>]
  /\ nvs_io_error = FALSE
  /\ retry_count = 0
  /\ retry_timer = FALSE
  /\ sta_config = [ssid |-> <<>>, password |-> <<>>]
  /\ wifi_ret = "ESP_OK"
  /\ wifi_events = <<>>
  /\ disconnects = 0
  /\ first_ap_disconnect = 0
  /\ no_match_seen = FALSE
  /\ wifi_current_state = "STA"
  /\ wifi_request_bits = {}
  /\ wifi_state_bits = {"STA"}
  /\ radio = [inited |-> TRUE, mode |-> "STA", started |-> TRUE, link |-> "scanning",
              scan |-> <<>>]
  /\ station_req_external = FALSE
  /\ WebInit
  /\ boot_variant = "init_boiler_plate"
  /\ boot_pc = "wait_wifi"
  /\ observer_pc = "idle"
  /\ observer_late = FALSE
  /\ mutex_holder = [m \in Mutexes |-> "free"]
  /\ thread_pc = [t \in Threads |-> Idle]
  /\ WakeInit
  /\ heap_free = TRUE
  /\ aborted = FALSE
  /\ caller_budget = [nvs |-> 0, wifi |-> 0, web |-> 0, post |-> 0]

\* The Wi-Fi manager's event handlers and the driver, from the first scan on.
NextSelect ==
  \/ RadioScanDone
  \/ HandleScanDone
  \/ RadioGotIp
  \/ HandleGotIp
  \/ RadioLinkLost
  \/ HandleStaDisconnected
  \/ RetryTimerCallback

SpecSelect == InitSelect /\ [][NextSelect]_vars

\* -------------------------------------------------------------- properties
\* The steps of each manager's own worker task.
NvsWorkerStep == NvsFsmWake \/ NvsFinishRead \/ NvsFinishWrite \/ NvsFinishDeinit
WifiWorkerStep == WifiFsmTask
WebWorkerStep == WebFsmStart \/ WebFsmTask \/ WebFsmDns

\* C1: for every manager, current_state and the published state signals
\* change only in a step of that manager's own worker task; no caller and no
\* event callback changes them.
C1_OnlyWorkerChangesState ==
  [][ /\ (nvs_current_state' # nvs_current_state \/ nvs_state_bits' # nvs_state_bits)
           => NvsWorkerStep
      /\ (wifi_current_state' # wifi_current_state \/ wifi_state_bits' # wifi_state_bits)
           => WifiWorkerStep
      /\ (web_state_bits' # web_state_bits) => WebWorkerStep ]_vars

\* C2: no step, of a waiter or of anyone else, removes a published state
\* signal, so a wait_until(X) finds X whenever it is called after X was
\* published, whatever the manager and the other waiters have done since.
C2_PublishedSignalsStay ==
  [][ /\ nvs_state_bits \subseteq nvs_state_bits'
      /\ wifi_state_bits \subseteq wifi_state_bits'
      /\ web_state_bits \subseteq web_state_bits' ]_vars

\* C2 witness: the boot task and a second task have both returned from waiting
\* for AP, the second having started to wait only after the manager had left
\* AP again.
C2_Witness ==
  /\ boot_variant = "app_main"
  /\ boot_pc \in {"wait_web", "done"}
  /\ observer_pc = "returned"
  /\ observer_late
  /\ wifi_current_state # "AP"

\* C3: while the boot task, having requested Station, waits for the Wi-Fi
\* manager, its wait is satisfied as soon as StationConnected or AccessPoint
\* has been published.
C3_BootProceedsOnEither ==
  ( /\ boot_pc = "wait_wifi"
    /\ BootWifiRequest(boot_variant) = "STA"
    /\ wifi_state_bits \cap {"STA_IP_RECEIVED", "AP"} # {} )
  => WaitSatisfied(wifi_state_bits, BootWifiWait(boot_variant), WifiWaitForAllBits)

\* C4 as stated: counting disconnect events from a retry counter of zero, the
\* first one on which AccessPoint is requested is the CONFIG_WIFI_RETRIES-th.
C4_ApOnRetriesthDisconnect ==
  first_ap_disconnect # 0 => first_ap_disconnect = CONFIG_WIFI_RETRIES

\* C4 amended: the first CONFIG_WIFI_RETRIES disconnect events each schedule a
\* reconnect; AccessPoint is requested on the (CONFIG_WIFI_RETRIES + 1)-th and
\* on no earlier one.
C4_ApAfterRetriesUsedUp ==
  \/ first_ap_disconnect = 0 /\ retry_count = disconnects /\ disconnects <= CONFIG_WIFI_RETRIES
  \/ /\ first_ap_disconnect = CONFIG_WIFI_RETRIES + 1
     /\ retry_count = CONFIG_WIFI_RETRIES
     /\ disconnects > CONFIG_WIFI_RETRIES

\* C4 witness: the retries are used up and the next disconnect has requested AP.
C4_Witness ==
  /\ first_ap_disconnect = CONFIG_WIFI_RETRIES + 1
  /\ "AP_REQUEST" \in wifi_request_bits

\* C5: the step that handles a scan result matching no configured name
\* requests AccessPoint and leaves the firmware running.
C5_NoMatchRequestsAp ==
  [][ (no_match_seen' /\ ~no_match_seen)
        => ("AP_REQUEST" \in wifi_request_bits' /\ ~aborted') ]_vars

\* A step that brings up the station interface, or starts a scan or a
\* connection attempt on it.
StationAttempt ==
  \/ StationUsable(radio') /\ ~StationUsable(radio)
  \/ radio'.link \in {"scanning", "connecting"} /\ radio.link \notin {"scanning", "connecting"}

C7_BusyArrivalsRejected ==
  [][ ( /\ nvs_pc = "wait" /\ nvs_request_bits # {} /\ nvs_request_bits' = {}
        /\ NvsPickRequest(nvs_request_bits) \in busy_arrivals )
        => (nvs_current_state' = nvs_current_state /\ nvs_ret' = "ESP_FAIL") ]_vars

\* C8: a READ request on a stored blob of the current version whose length
\* disagrees with its length fields returns an error, ends in READY and leaves
\* the shared configuration as it was.
C8_InconsistentReadFails ==
  [][ ( /\ nvs_pc = "read" /\ nvs_pc' = "wait"
        /\ nvs_key # <<>> /\ nvs_key[1] = CONFIGURATION_VERSION
        /\ ~LengthConsistent(nvs_key) )
        => ( /\ nvs_ret' # "ESP_OK"
             /\ nvs_current_state' = "READY"
             /\ unit_config' = unit_config ) ]_vars

\* C9: a READY transition from NONE that found the key absent or of another
\* version has written the default configuration before publishing READY.
C9_DefaultOnAbsentOrMismatch ==
  (init_hist.done /\ (init_hist.absent \/ init_hist.mismatch)) => init_hist.wrote_default

\* C10: a flash failure in a READ or WRITE request is returned to the caller
\* and requests AccessPoint of the Wi-Fi manager.
C10_StorageFailureForcesAp ==
  nvs_io_error
    => ( /\ ~aborted
         /\ nvs_ret # "ESP_OK"
         /\ ("AP_REQUEST" \in wifi_request_bits \/ wifi_current_state = "AP") )

\* A step of a POST handler that changed the credentials or the URLs held in
\* shared_data and returned.
SubmissionChangedConfig ==
  /\ wifi_post_handler \/ ota_post_handler
  /\ ~aborted'
  /\ unit_config' # unit_config

\* C11: every step of a POST handler that changes the credentials or the URLs
\* of the shared configuration leaves a WRITE request pending for the NVS
\* manager.
C11_SubmissionRequestsWrite ==
  [][ SubmissionChangedConfig => "WRITE_REQUEST" \in nvs_request_bits' ]_vars

\* C12: when the boot task of app_main has returned from its wait on the web
\* page manager, SERVING and DNS_SERVER_ACTIVE have both been published.
C12_BootWaitsForBoth ==
  (boot_variant = "app_main" /\ boot_pc = "done")
    => {"SERVING", "DNS_SERVER_ACTIVE"} \subseteq web_state_bits

\* C13: a worker step that takes up a request for the state its manager is in
\* changes nothing the manager owns and runs no initialisation again: the NVS
\* manager leaves the flash, the shared configuration and its state alone, the
\* Wi-Fi manager leaves the radio alone and posts no event, the web page
\* manager does not run init_web_pages on the running server.
C13_CurrentStateRequestIsNoOp ==
  [][ /\ ( /\ NvsFsmWake
           /\ nvs_current_state = "READY"
           /\ NvsPickRequest(nvs_request_bits) = "READY_REQUEST" )
          => UNCHANGED <<nvs_current_state, nvs_state_bits, nvs_flash_inited, nvs_key,
                         unit_config, nvs_pc>>
      /\ ( /\ WifiFsmTask
           /\ WifiPickRequest(wifi_request_bits) = wifi_current_state )
          => UNCHANGED <<wifi_current_state, wifi_state_bits, radio, wifi_events>>
      /\ ( /\ WebFsmTask
           /\ http_server /\ "SERVING" \in web_state_bits
           /\ "SERVING_REQUEST" \in web_request_bits
           /\ "NONE_REQUEST" \notin web_request_bits )
          => WebPagesBranch(web_state_bits, web_request_bits) = "none" ]_vars

\* C14: every step that handles an address-obtained event leaves the retry
\* counter at zero, wifi_connected set in the shared configuration and
\* STA_IP_RECEIVED published.
C14_GotIpEffects ==
  [][ HandleGotIp
        => ( /\ retry_count' = 0
             /\ unit_config'.wifi_connected
             /\ "STA_IP_RECEIVED" \in wifi_state_bits' ) ]_vars

\* A worker step in which esp_wifi_init failed: the manager was in NONE, another
\* state was requested, transition_to_state returned an error and the driver
\* is still not initialised.
RadioInitFailed ==
  /\ WifiFsmTask
  /\ wifi_current_state = "NONE"
  /\ WifiPickRequest(wifi_request_bits) # "NONE"
  /\ wifi_ret' # "ESP_OK"
  /\ ~radio'.inited

\* C15: the worker step in which the radio fails to initialise leaves an
\* AccessPoint request pending.
C15_InitFailureRequestsAp ==
  [][ RadioInitFailed => "AP_REQUEST" \in wifi_request_bits' ]_vars

\* The configured credentials, and the same list in reverse order.
Credentials(c) == SubSeq(c.wifi_settings.data, 1, c.wifi_settings_count)
ReversedCredentials(c) ==
  LET creds == Credentials(c)
  IN [c EXCEPT !.wifi_settings =
                  Ptr([j \in 1..Len(creds) |-> creds[Len(creds) + 1 - j]])]

\* The scan records whose name equals a configured name.
MatchingRecords(c, aps) ==
  { i \in DOMAIN aps : \E j \in DOMAIN Credentials(c) : Credentials(c)[j].ssid.data = aps[i].ssid }

\* Among them the one of highest signal strength, the first in scan order on
\* equal strength.
StrongestRecord(c, aps) ==
  CHOOSE i \in MatchingRecords(c, aps) :
    \A k \in MatchingRecords(c, aps) :
      aps[k].rssi < aps[i].rssi \/ (aps[k].rssi = aps[i].rssi /\ i <= k)

\* C16: when a scan result holds a network with a configured name, the step
\* that handles it applies the name of the strongest such network (the first
\* in scan order on equal strength) with the password configured for that
\* name, and applies the same for the credential list in reverse order.
C16_StrongestMatchApplied ==
  [][ ( /\ HandleScanDone
        /\ MatchingRecords(unit_config, radio.scan) # {} )
        => LET aps == radio.scan
               i == StrongestRecord(unit_config, aps)
               rev == find_strongest_ssid(ReversedCredentials(unit_config), aps)
           IN /\ sta_config'.ssid = aps[i].ssid
              /\ \E j \in DOMAIN Credentials(unit_config) :
                   /\ Credentials(unit_config)[j].ssid.data = aps[i].ssid
                   /\ Credentials(unit_config)[j].password.data = sta_config'.password
              /\ rev.ssid = sta_config'.ssid
              /\ rev.password = sta_config'.password ]_vars

\* A worker step in which read_nvs_into_config hands the stored blob to the
\* decoder: a READ request, or the read that ends the READY transition.
DecodeStep ==
  /\ nvs_key # <<>>
  /\ \/ NvsFinishRead /\ nvs_pc' = "wait"
     \/ NvsFsmWake /\ nvs_current_state = "NONE" /\ nvs_current_state' = "READY"

\* Blobs the encoder produces, and a blob cut short by its last byte.
ValidBlobs == {BlobA, SerializedBlob(DefaultConfig(ZeroConfig))}
OneByteShort(blob) == SubSeq(blob, 1, Len(blob) - 1)

\* C17: decoding a valid blob cut short by one byte reports failure and
\* consumes no byte beyond the end of the blob.
C17_TruncatedBlobRejected ==
  [][ (DecodeStep /\ \E v \in ValidBlobs : nvs_key = OneByteShort(v))
        => ( /\ ~deserialize_unit_configuration(unit_config, nvs_key \o Pad(0)).ok
             /\ DecodedLength(nvs_key) <= Len(nvs_key) ) ]_vars

\* C18: decoding a blob of another version reports failure and leaves the
\* target configuration exactly as it was.
C18_VersionMismatchLeavesConfig ==
  [][ (DecodeStep /\ nvs_key[1] # CONFIGURATION_VERSION)
        => ( /\ ~deserialize_unit_configuration(unit_config, nvs_key \o Pad(0)).ok
             /\ unit_config' = unit_config ) ]_vars

\* C19: the step that decodes the blob the encoder produces for a valid
\* configuration leaves the shared configuration equal to that configuration,
\* whatever it held before.
C19_RoundTrip ==
  [][ DecodeStep
        => \A c \in CodecConfigs :
             nvs_key = SerializedBlob(c) => (unit_config' = c /\ ~aborted') ]_vars

\* C19 witness: the configuration with 255 credentials, a 32-byte name and
\* 255-byte URLs has been decoded from its blob.
C19_Witness ==
  /\ unit_config = BoundaryConfig
  /\ nvs_key = SerializedBlob(BoundaryConfig)
  /\ nvs_current_state = "READY"

\* The compiled-in defaults as the shared configuration holds them.
Defaults == DefaultConfig(ZeroConfig)

\* C20: the READY transition that finds the key absent stores the blob of the
\* compiled-in defaults, and from then on every completed READY transition or
\* READ request on that blob leaves the shared configuration equal to the
\* defaults.
C20_FreshDeviceDefaults ==
  [][ /\ ( /\ NvsFsmWake /\ nvs_current_state = "NONE" /\ nvs_current_state' = "READY"
           /\ nvs_key = <<>> )
          => (nvs_key' = SerializedBlob(Defaults) /\ unit_config' = Defaults)
      /\ ( /\ init_hist.absent
           /\ NvsFinishRead /\ nvs_pc' = "wait"
           /\ nvs_key = SerializedBlob(Defaults) )
          => (unit_config' = Defaults /\ nvs_ret' = "ESP_OK") ]_vars

\* C20 witness: the key was absent, the defaults were written, and a READ
\* request has been carried out since.
C20_Witness ==
  /\ init_hist.absent /\ init_hist.wrote_default /\ init_hist.read_done
  /\ nvs_current_state = "READY"
  /\ unit_config = Defaults

\* C21: a completed WRITE request stores exactly the bytes the serialiser
\* produces for the configuration in memory, and their number is the size
\* computed for the buffer.
C21_SizeMatchesEncoding ==
  [][ (NvsFinishWrite /\ nvs_pc' = "wait")
        => /\ calculate_unit_configuration_size(unit_config)
                = Len(serialize_unit_configuration(unit_config))
           /\ nvs_key' = serialize_unit_configuration(unit_config) ]_vars

\* C21 witness: a WRITE request has stored a configuration that a form
\* changed, so the flash holds neither what it held at power-up nor the
\* defaults.
C21_Witness ==
  /\ nvs_pc = "wait" /\ nvs_current_state = "READY"
  /\ nvs_key = serialize_unit_configuration(unit_config)
  /\ nvs_key \notin InitialBlobs \cup {SerializedBlob(DefaultConfig(ZeroConfig))}
  /\ unit_config.wifi_settings_count > 0

\* C22: a READ request completed after a WRITE request leaves the shared
\* configuration equal to the configuration the last WRITE request
\* serialised.
C22_ReadRestoresLastWrite ==
  [][ (NvsFinishRead /\ nvs_pc' = "wait" /\ init_hist.written # <<>>)
        => unit_config' = init_hist.written[1] ]_vars

\* Task t is between a take of mutex m and the give that follows it.
HoldsBy(t, m) ==
  LET ops == PathOps(thread_pc[t].path)
      before == 1..(thread_pc[t].at - 1)
  IN Cardinality({i \in before : ops[i] = Take(m)})
       > Cardinality({i \in before : ops[i] = Give(m)})

C24_NoSecondLock ==
  [][ \A t \in Threads :
        (NextOp(t).op = "take" /\ thread_pc'[t] # thread_pc[t])
          => ~HoldsBy(t, "state_mutex") ]_vars

\* C24 witness: a POST handler has released the configuration and holds
\* managers_mutex, while another task holds state_mutex.
C24_Witness ==
  /\ thread_pc["httpd"] = [path |-> "ota_post_handler", at |-> 5]
  /\ mutex_holder["managers_mutex"] = "httpd"
  /\ mutex_holder["state_mutex"] = "nvs_fsm"

C26_ShutdownAlwaysReachesNone ==
  [][ NvsFinishDeinit
        => /\ nvs_current_state' = "NONE"
           /\ "NONE" \in nvs_state_bits'
           /\ ~nvs_flash_inited' ]_vars

\* C26 amended: a NONE request evaluated while READY ends with the flash
\* closed, current_state NONE and NONE published when nvs_flash_deinit
\* succeeds; when it fails the request returns the failure and the manager is
\* READY again, READY published and the flash still open.
C26_ShutdownReachesNoneUnlessDeinitFails ==
  [][ NvsFinishDeinit
        => IF nvs_ret' = "ESP_OK"
             THEN /\ nvs_current_state' = "NONE"
                  /\ "NONE" \in nvs_state_bits'
                  /\ ~nvs_flash_inited'
             ELSE /\ nvs_current_state' = "READY"
                  /\ "READY" \in nvs_state_bits'
                  /\ nvs_flash_inited' = nvs_flash_inited ]_vars

\* C26 witness: the manager was READY, a NONE request has been carried out
\* and the manager is in NONE again with the flash closed.
C26_Witness ==
  /\ init_hist.done
  /\ nvs_current_state = "NONE" /\ "NONE" \in nvs_state_bits
  /\ ~nvs_flash_inited
  /\ nvs_pc = "wait" /\ nvs_ret = "ESP_OK"

\* C27: the blob of a configuration without credentials has a count byte of
\* zero and, directly behind the two URLs, the log level and the unit name,
\* with no credential record in between; the step that decodes it succeeds
\* and leaves a count of zero and no credential array.
C27_NoCredentials ==
  [][ DecodeStep
        => \A c \in CodecConfigs :
             (c.wifi_settings_count = 0 /\ nvs_key = SerializedBlob(c))
               => /\ nvs_key[2] = 0
                  /\ SubSeq(nvs_key, 5 + c.ota_url_len + c.version_url_len, Len(nvs_key))
                       = LE32(c.log_level) \o <<c.unit_name_len>>
                           \o MemRead(c.unit_name, c.unit_name_len)
                  /\ unit_config'.wifi_settings_count = 0
                  /\ unit_config'.wifi_settings = NullPtr
                  /\ nvs_ret' = "ESP_OK"
                  /\ ~aborted' ]_vars

\* C27 witness: a blob without credentials but with URLs and a unit name has
\* been decoded.
C27_Witness ==
  /\ nvs_key = SerializedBlob(NoCredentialsConfig)
  /\ unit_config.ota_url_len > 0
  /\ unit_config.wifi_settings_count = 0
  /\ nvs_current_state = "READY"

\* The bytes of the string a pointer and its length field describe.
Str(p, len) == MemRead(p, len)

\* The credential records lo..hi with each length directly in front of its
\* string.
RECURSIVE InterleavedRecords(_, _, _)
InterleavedRecords(items, lo, hi) ==
  IF lo > hi THEN <<>>
  ELSE IF lo = hi
    THEN <<items[lo].ssid_len>> \o Str(items[lo].ssid, items[lo].ssid_len)
           \o <<items[lo].password_len>> \o Str(items[lo].password, items[lo].password_len)
  ELSE LET mid == (lo + hi) \div 2
       IN InterleavedRecords(items, lo, mid) \o InterleavedRecords(items, mid + 1, hi)

\* The credential records lo..hi with both lengths in front of both strings.
RECURSIVE GroupedRecords(_, _, _)
GroupedRecords(items, lo, hi) ==
  IF lo > hi THEN <<>>
  ELSE IF lo = hi
    THEN <<items[lo].ssid_len, items[lo].password_len>>
           \o Str(items[lo].ssid, items[lo].ssid_len)
           \o Str(items[lo].password, items[lo].password_len)
  ELSE LET mid == (lo + hi) \div 2
       IN GroupedRecords(items, lo, mid) \o GroupedRecords(items, mid + 1, hi)

\* version, count, then each URL behind its own length, interleaved records,
\* a one-byte log level, the unit name behind its length.
InterleavedLayout(c) ==
  <<c.configuration_version, c.wifi_settings_count>>
    \o <<c.ota_url_len>> \o Str(c.ota_url, c.ota_url_len)
    \o <<c.version_url_len>> \o Str(c.version_url, c.version_url_len)
    \o InterleavedRecords(c.wifi_settings.data, 1, c.wifi_settings_count)
    \o <<c.log_level>>
    \o <<c.unit_name_len>> \o Str(c.unit_name, c.unit_name_len)

\* version, then count and both URL lengths, both URLs, grouped records, a
\* four-byte little-endian log level, the unit name behind its length.
GroupedLayout(c) ==
  <<c.configuration_version, c.wifi_settings_count, c.ota_url_len, c.version_url_len>>
    \o Str(c.ota_url, c.ota_url_len)
    \o Str(c.version_url, c.version_url_len)
    \o GroupedRecords(c.wifi_settings.data, 1, c.wifi_settings_count)
    \o <<c.log_level % 256, (c.log_level \div 256) % 256, (c.log_level \div 65536) % 256,
         (c.log_level \div 16777216) % 256>>
    \o <<c.unit_name_len>> \o Str(c.unit_name, c.unit_name_len)

\* C28 as stated: the blob a completed WRITE request stores is version, count,
\* ota_url_len and the OTA URL, version_url_len and the version URL, the
\* records as ssid_len, name, password_len, password, one byte of log level,
\* name_len and the unit name.
C28_BlobLayoutInterleaved ==
  [][ (NvsFinishWrite /\ nvs_pc' = "wait") => nvs_key' = InterleavedLayout(unit_config) ]_vars

\* C28 amended: the blob a completed WRITE request stores is version; count,
\* ota_url_len and version_url_len; the OTA URL; the version URL; the records
\* as ssid_len, password_len, name, password; four bytes of log level, least
\* significant first; name_len and the unit name; nothing else.
C28_BlobLayoutGrouped ==
  [][ (NvsFinishWrite /\ nvs_pc' = "wait") => nvs_key' = GroupedLayout(unit_config) ]_vars

\* C28 witness: a WRITE request has stored a configuration with credentials,
\* both URLs and a unit name.
C28_Witness ==
  /\ init_hist.written # <<>>
  /\ nvs_key = GroupedLayout(unit_config)
  /\ unit_config.wifi_settings_count > 1
  /\ unit_config.ota_url_len > 0 /\ unit_config.version_url_len > 0
  /\ unit_config.unit_name_len > 0
  /\ nvs_pc = "wait"

\* A length field agrees with the string its pointer refers to, and the
\* pointer does not dangle.
StringAgrees(p, len) ==
  /\ p.st # "freed"
  /\ IF len = 0 THEN CStr(p.data) = <<>>
               ELSE p.st = "ok" /\ Len(CStr(p.data)) = len

\* Every count and length field of the configuration agrees with the list or
\* string it describes and nothing refers to freed storage.
ConfigConsistent(c) ==
  /\ c.wifi_settings.st # "freed"
  /\ Len(c.wifi_settings.data) = c.wifi_settings_count
  /\ \A i \in 1..Len(c.wifi_settings.data) :
       /\ StringAgrees(c.wifi_settings.data[i].ssid, c.wifi_settings.data[i].ssid_len)
       /\ StringAgrees(c.wifi_settings.data[i].password, c.wifi_settings.data[i].password_len)
  /\ StringAgrees(c.ota_url, c.ota_url_len)
  /\ StringAgrees(c.version_url, c.version_url_len)
  /\ StringAgrees(c.unit_name, c.unit_name_len)

\* C29: a step of any task that starts from a consistent shared configuration
\* and ends with state_mutex free leaves it consistent: default synthesis,
\* the decoding of a blob the encoder produced, and the POST handlers.
C29_NoHalfReplacedConfig ==
  [][ ( /\ ConfigConsistent(unit_config)
        /\ ~aborted'
        /\ mutex_holder'["state_mutex"] = "free"
        /\ DecodeStep => LengthConsistent(nvs_key) )
        => ConfigConsistent(unit_config') ]_vars

\* The pairs for which transition_to_state of the NVS manager has a branch.
NvsLegal(cur, req) ==
  \/ cur = "NONE" /\ req = "READY_REQUEST"
  \/ cur = "READY" /\ req \in {"READ_REQUEST", "WRITE_REQUEST", "NONE_REQUEST"}

\* The Wi-Fi manager carries out every request for a state other than its own.
WifiLegal(cur, new) == cur # new

\* The pairs for which the second if-chain of the web page manager has a branch.
WebDnsLegal(st, req) ==
  \/ "DNS_SERVER_ACTIVE" \in st /\ "DNS_SERVER_NONE_REQUEST" \in req
  \/ "DNS_SERVER_NONE" \in st /\ "DNS_SERVER_REQUEST" \in req

\* C30: a worker that evaluates a pair of current state and requested state
\* for which its transition table has no branch leaves its current state as
\* it is and publishes no state signal in that step.
C30_IllegalPairNoEffect ==
  [][ /\ (NvsFsmWake /\ ~NvsLegal(nvs_current_state, NvsPickRequest(nvs_request_bits)))
            => UNCHANGED <<nvs_current_state, nvs_state_bits>>
      /\ (WifiFsmTask /\ ~WifiLegal(wifi_current_state, WifiPickRequest(wifi_request_bits)))
            => UNCHANGED <<wifi_current_state, wifi_state_bits>>
      /\ (WebFsmTask /\ WebPagesBranch(web_state_bits, web_request_bits) = "none")
            => UNCHANGED <<web_state_bits, http_server>>
      /\ (WebFsmDns /\ ~WebDnsLegal(web_state_bits, web_bits))
            => UNCHANGED <<web_state_bits, dns_server>> ]_vars

\* Each worker has taken up a request its table has no branch for: the NVS
\* manager a READY_REQUEST while READY, the Wi-Fi manager a request for the
\* state it is in, the web page manager a NONE_REQUEST before it ever served.
C30_Witness ==
  /\ nvs_current_state = "READY" /\ nvs_ret = "ESP_FAIL" /\ nvs_pc = "wait"
  /\ "BUSY" \notin nvs_state_bits
  /\ wifi_current_state = "NONE" /\ wifi_request_bits = {} /\ wifi_ret = "ESP_OK"
  /\ caller_budget.wifi < MaxWifiRequests /\ ~radio.inited /\ wifi_state_bits = {}
  /\ web_pc = "dns" /\ web_bits = {"NONE_REQUEST"} /\ "SERVING" \notin web_state_bits
  /\ ~aborted

\* C31: only the address-obtained event lowers the retry counter; no
\* disconnect event, scheduled retry, AccessPoint request or state transition
\* does, so a counter at CONFIG_WIFI_RETRIES stays there until an address is
\* obtained.
C31_RetryCountResetOnlyByGotIp ==
  [][ ~HandleGotIp =>
        /\ retry_count' >= retry_count
        /\ retry_count' <= CONFIG_WIFI_RETRIES
        /\ (retry_count = CONFIG_WIFI_RETRIES => retry_count' = CONFIG_WIFI_RETRIES) ]_vars

\* The retries were used up, the access point was requested and entered, and
\* the counter is still at its maximum.
C31_Witness ==
  /\ retry_count = CONFIG_WIFI_RETRIES
  /\ first_ap_disconnect # 0
  /\ wifi_current_state = "AP"
  /\ ~aborted

\* The first element of the sequence `order` that is in the set `bits`.
RECURSIVE FirstPending(_, _)
FirstPending(order, bits) ==
  IF Head(order) \in bits \/ Len(order) = 1 THEN Head(order)
  ELSE FirstPending(Tail(order), bits)

\* Shutdown, then Init, then Read, then Write.
NvsPriority == <<"NONE_REQUEST", "READY_REQUEST", "READ_REQUEST", "WRITE_REQUEST">>
\* Idle, then Station, then AccessPoint, then AccessPoint+Station.
WifiPriority == <<"NONE", "STA", "AP", "AP_STA">>

\* What a wake-up of the NVS worker does when it evaluates `req`.
NvsEvaluates(req) ==
  IF nvs_current_state = "READY"
    THEN CASE req = "NONE_REQUEST" -> nvs_pc' = "deinit"
           [] req = "READ_REQUEST" -> nvs_pc' = "read"
           [] req = "WRITE_REQUEST" -> nvs_pc' = "write"
           [] OTHER -> nvs_pc' = "wait" /\ nvs_ret' = "ESP_FAIL"
    ELSE IF req = "READY_REQUEST"
           THEN nvs_current_state' = "READY" \/ nvs_ret' = "ESP_FAIL" \/ aborted'
           ELSE nvs_current_state' = nvs_current_state /\ nvs_ret' = "ESP_FAIL"

\* C32: of the request bits pending when a worker wakes, the one it evaluates
\* in that iteration is the first in a fixed order, whatever the order of
\* arrival: for the NVS manager NONE, READY, READ, WRITE, for the Wi-Fi manager
\* NONE, STA, AP, AP_STA.
C32_FixedPriority ==
  [][ /\ NvsFsmWake =>
            /\ NvsPickRequest(nvs_request_bits) = FirstPending(NvsPriority, nvs_request_bits)
            /\ NvsEvaluates(FirstPending(NvsPriority, nvs_request_bits))
      /\ WifiFsmTask =>
            LET first == FirstPending(WifiPriority,
                           {st \in WifiStates :
                              wifi_manager_request_state(st) \in wifi_request_bits})
            IN /\ WifiPickRequest(wifi_request_bits) = first
               /\ wifi_current_state' \in {wifi_current_state, first}
               /\ wifi_ret' = "ESP_OK" => wifi_current_state' = first ]_vars

\* Both workers woke with several requests pending and carried out the one
\* that comes first: the NVS manager became READY with a read or write also
\* pending, the Wi-Fi manager entered a state with a later one also pending.
C32_Witness ==
  /\ Cardinality(nvs_bits) >= 2 /\ "NONE_REQUEST" \notin nvs_bits
  /\ nvs_current_state = "READY" /\ nvs_ret = "ESP_OK" /\ "BUSY" \notin nvs_state_bits
  /\ Cardinality(wifi_bits) >= 2 /\ "NONE_REQUEST" \notin wifi_bits
  /\ wifi_ret = "ESP_OK" /\ wifi_current_state = WifiPickRequest(wifi_bits)
  /\ wifi_state_bits = {wifi_current_state}
  /\ ~aborted

\* C33: no accepted request is lost: every request bit a worker took at its
\* last wake-up is the one it evaluated in that iteration or is pending again
\* for a later iteration.
C33_NoRequestLost ==
  /\ \A r \in nvs_bits : r = NvsPickRequest(nvs_bits) \/ r \in nvs_request_bits
  /\ \A r \in wifi_bits :
       r = wifi_manager_request_state(WifiPickRequest(wifi_bits)) \/ r \in wifi_request_bits

\* C34: the stop events of the manager's own mode switch do not undo it:
\* while no task has used the public API to request a state (the boot task
\* asks for STA or AP, never for NONE), a manager that has reached STA or AP
\* does not go to NONE.
C34_StopEventsDoNotUndoSwitch ==
  [][ (caller_budget.wifi = MaxWifiRequests /\ wifi_current_state \in {"STA", "AP"})
        => wifi_current_state' # "NONE" ]_vars

\* C35: a READY transition from NONE publishes READY only if the flash then
\* holds a blob and the shared configuration holds what that blob encodes.
C35_ReadyOnlyWithLoadedConfig ==
  [][ (NvsFsmWake /\ nvs_current_state = "NONE" /\ nvs_current_state' = "READY")
        => /\ nvs_key' # <<>>
           /\ ConfigConsistent(unit_config')
           /\ SerializedBlob(unit_config') = nvs_key' ]_vars

\* C36: lock balance: a task that is in none of its functions holds no
\* mutex, and a task gives a mutex only while it holds it.
C36_LockBalance ==
  /\ [](\A t \in Threads : thread_pc[t] = Idle => \A m \in Mutexes : mutex_holder[m] # t)
  /\ [][ \A t \in Threads :
           (NextOp(t).op = "give" /\ thread_pc'[t] # thread_pc[t])
             => mutex_holder[NextOp(t).mutex] = t ]_vars

\* C37: once the worker of the web page manager runs, exactly one of NONE
\* and SERVING and exactly one of DNS_SERVER_NONE and DNS_SERVER_ACTIVE is
\* published.
C37_OneStatePerDimension ==
  web_pc # "start"
    => /\ Cardinality(web_state_bits \cap {"NONE", "SERVING"}) = 1
       /\ Cardinality(web_state_bits \cap {"DNS_SERVER_NONE", "DNS_SERVER_ACTIVE"}) = 1

\* C38: the step that publishes SERVING is one in which init_web_pages
\* returned ESP_OK, so that the pages are loaded, the HTTP server runs and the
\* handlers are registered.
C38_ServingOnlyAfterSuccess ==
  [][ (WebFsmTask /\ "SERVING" \notin web_state_bits /\ "SERVING" \in web_state_bits')
        => (web_ret' = "ESP_OK" /\ http_server') ]_vars

\* C39: current_state of the Wi-Fi manager matches the radio: in STA, AP or
\* AP_STA the radio runs in that mode, in NONE it does not run.
C39_StateMatchesRadio ==
  ~aborted =>
    IF wifi_current_state = "NONE" THEN ~radio.started
    ELSE radio.started /\ radio.mode = target_mode(wifi_current_state)

\* C40: when a scan result holds a network with a configured name, the step
\* that handles it selects a credential, whatever the signal strengths.
C40_MatchSelectedAtAnyStrength ==
  [][ (HandleScanDone /\ MatchingRecords(unit_config, radio.scan) # {})
        => /\ find_strongest_ssid(unit_config, radio.scan).found
           /\ sta_config'.ssid # <<>>
           /\ no_match_seen' = no_match_seen ]_vars

====
